---- MODULE Spec2Model ----
(***************************************************************************)
(* Model of the CV sorting ML service: criteria scoring, semantic         *)
(* matching, embedding storage, the CV text parsers (work history,        *)
(* education, skills, section headers, columns, personal info), the OCR   *)
(* routes and engine selection, the CAP client and the readiness probe.   *)
(*                                                                         *)
(* Numbers.  Python floats with at most two decimals are carried as        *)
(* integers: a weight, a per_unit_points value and a proficiency           *)
(* multiplier are in tenths, a percentage and a combined score are in      *)
(* hundredths (round(x, 2)), a cosine similarity is in hundredths.  An     *)
(* Optional value is the empty tuple (None) or a one-element tuple.        *)
(***************************************************************************)
EXTENDS Integers, Sequences, FiniteSets, TLC

VARIABLES
    candidate_data,         \* calculate_score: the candidate profile passed in
    criteria,               \* calculate_score: the criteria list passed in
    scoring_result,         \* calculate_score: None before the call, Some(result) after
    candidate_embeddings,   \* table candidate_embeddings: sequence of rows
    job_embeddings,         \* table job_embeddings: sequence of rows
    scoring_criteria,       \* table scoring_criteria: sequence of rows
    response,               \* the answer of the last matching request
    semantic_match_results, \* table semantic_match_results: sequence of rows
    last_stored,            \* history: the MatchResult of the last successful store per pair
    stores,                 \* number of store-result requests made
    db,                     \* TRUE when the connection pool was established at startup
    calls,                  \* generate_candidate_embedding: the calls begun, in order
    text,                   \* parse_work_history: the section text passed in
    lines,                  \* parse_work_history: the stripped non-empty lines
    line_i,                 \* parse_work_history: outer loop index i (counted from 1)
    line_j,                 \* parse_work_history: inner loop index j (counted from 1)
    current_job,            \* parse_work_history: title, company and dates of the open job
    responsibilities,       \* parse_work_history: lines collected for the open job
    jobs,                   \* parse_work_history: the records emitted so far
    parser_state,           \* parse_work_history: position in the function
    education_text,         \* parse_education: the section text passed in
    education_entries,      \* parse_education: None before the call, Some(records) after
    skills_section,         \* parse_skills: the section text passed in
    parsed_skills,          \* parse_skills: None before the call, Some(skills) after
    left_column,            \* extract_from_columns: the text of the left column
    right_column,           \* extract_from_columns: the text of the right column
    tier2,                  \* extract_from_columns: None before the call, Some(tier2) after
    header_lines,           \* find_section_headers: lines, the text split at newlines
    line_index,             \* find_section_headers: the index i of the loop (counted from 1)
    header_state,           \* find_section_headers: sections, current_section and section_start
    found_sections,         \* find_section_headers: None before the return, Some(sections) after
    ocr_lines,              \* separate_columns: the OCR line dicts passed in
    separated,              \* separate_columns: None before the call, Some(<<left_text, right_text>>) after
    http_request,           \* the OCR routes: the request being handled and what the OCR processor does with it
    http_response,          \* the OCR routes: None before the handler returns, Some(response) after
    base_url,               \* CAPClient: base_url
    token_cached,           \* CAPClient: _token is set
    cap_call,               \* async_retry wrapper around get_candidate: the call in progress, None when there is none
    cap_log,                \* the calls of get_candidate that have returned or raised, oldest first
    inflight,               \* the assembled application: the requests received, each with its path, the seconds its handler has run and its status (0 while running)
    ocr_processor,          \* app.main: the OCRProcessor built at startup, as the record of its attributes
    db_pool,                \* app.main: "none" when the pool could not be connected at startup, else "connected" or "down"
    service_reply,          \* None, or Some(reply) of the last call of switch_engine, get_engine_info or GET /health/ready
    bulk_candidates,        \* bulk_generate_candidate_embeddings: the list of candidate dicts passed in
    bulk_next,              \* bulk_generate_candidate_embeddings: the position of the loop in the list (counted from 1)
    bulk_summary,           \* bulk_generate_candidate_embeddings: processed, failed and errors
    bulk_attempted,         \* history: the positions whose generate_candidate_embedding call was made, in order
    bulk_result,            \* bulk_generate_candidate_embeddings: None before the return, Some(summary) after
    temp_files,             \* the file system: the temporary files that exist
    paddle_calls,           \* _ocr_with_paddle: the calls made, oldest first, each with its image, position, temp_path and exception
    cache_maxsize,          \* EmbeddingCache: maxsize
    cache_entries,          \* EmbeddingCache: _cache, the OrderedDict as its items in order, oldest first
    cache_hits,             \* EmbeddingCache: hits
    cache_misses,           \* EmbeddingCache: misses
    cache_call,             \* the last call of get, set, remove or clear with its arguments and what it returned, None before the first
    use_order,              \* history: the keys in the cache ordered by their last use, least recent first; a use is the insertion of a key or a get hit
    retry_params,           \* async_retry: max_attempts, delay, backoff and max_delay of the decorator
    retry_run,              \* async_retry wrapper: one call of the wrapped function, its loop position, the invocations made and the sleeps taken
    criteria_requests,      \* set_scoring_criteria: the requests received, each with its criteria, its position in the handler and its HTTP status (0 while running)
    criteria_before         \* history: the scoring_criteria rows before the first request was received

scoreVars == <<candidate_data, criteria, scoring_result>>
matchVars == <<candidate_embeddings, job_embeddings, scoring_criteria, response>>
storeVars == <<semantic_match_results, last_stored, stores>>
embedVars == <<db, calls>>
workVars == <<text, lines, line_i, line_j, current_job, responsibilities, jobs, parser_state>>
educationVars == <<education_text, education_entries>>
skillsVars == <<skills_section, parsed_skills, left_column, right_column, tier2>>
sectionVars == <<header_lines, line_index, header_state, found_sections>>
separateVars == <<ocr_lines, separated>>
extractVars == <<http_request, http_response>>
capVars == <<base_url, token_cached, cap_call, cap_log>>
appVars == <<inflight>>
ocrVars == <<ocr_processor, db_pool, service_reply>>
bulkVars == <<bulk_candidates, bulk_next, bulk_summary, bulk_attempted, bulk_result>>
paddleVars == <<temp_files, paddle_calls>>
cacheVars == <<cache_maxsize, cache_entries, cache_hits, cache_misses, cache_call, use_order>>
retryVars == <<retry_params, retry_run>>
criteriaVars == <<criteria_requests, criteria_before>>
vars == <<scoreVars, matchVars, storeVars, embedVars, workVars, educationVars, skillsVars, sectionVars, separateVars, extractVars, capVars, appVars, ocrVars, bulkVars, paddleVars, cacheVars, retryVars, criteriaVars>>

None == <<>>
Some(v) == <<v>>

-----------------------------------------------------------------------------
(* Arithmetic helpers: Python int() and round() on the carried integers.   *)

Abs(n) == IF n < 0 THEN -n ELSE n

\* int(n / d) for d > 0: truncation toward zero
IntTrunc(n, d) == IF n >= 0 THEN n \div d ELSE -((-n) \div d)

\* round(n / d) for d > 0, ties to even (Python 3 round)
RoundHalfEven(n, d) ==
    LET q == n \div d
        r == n % d
    IN  IF 2 * r < d THEN q
        ELSE IF 2 * r > d THEN q + 1
        ELSE IF q % 2 = 0 THEN q ELSE q + 1

-----------------------------------------------------------------------------
(* String helpers: str.lower(), str.strip(), the `in` substring test and   *)
(* int(str).                                                               *)

UpperCase == "ABCDEFGHIJKLMNOPQRSTUVWXYZ"
LowerCase == "abcdefghijklmnopqrstuvwxyz"
Digits == "0123456789"

CharAt(s, i) == SubSeq(s, i, i)

IndexIn(alphabet, c) ==
    IF \E k \in 1..Len(alphabet) : CharAt(alphabet, k) = c
    THEN CHOOSE k \in 1..Len(alphabet) : CharAt(alphabet, k) = c
    ELSE 0

UpperChars == {CharAt(UpperCase, k) : k \in 1..Len(UpperCase)}

LowerChar(c) == IF c \in UpperChars THEN CharAt(LowerCase, IndexIn(UpperCase, c)) ELSE c

RECURSIVE Lower(_)
Lower(s) ==
    IF Len(s) = 0 THEN s
    ELSE LowerChar(CharAt(s, 1)) \o Lower(SubSeq(s, 2, Len(s)))

\* the characters str.strip() and the pattern \s take for whitespace
Whitespace == " \t\n"

IsSpace(c) == \E k \in 1..Len(Whitespace) : CharAt(Whitespace, k) = c

RECURSIVE LStrip(_)
LStrip(s) ==
    IF Len(s) > 0 /\ IsSpace(CharAt(s, 1)) THEN LStrip(SubSeq(s, 2, Len(s))) ELSE s

RECURSIVE RStrip(_)
RStrip(s) ==
    IF Len(s) > 0 /\ IsSpace(CharAt(s, Len(s))) THEN RStrip(SubSeq(s, 1, Len(s) - 1)) ELSE s

Strip(s) == RStrip(LStrip(s))

\* a in b
Contains(b, a) ==
    \E i \in 1..(Len(b) - Len(a) + 1) : SubSeq(b, i, i + Len(a) - 1) = a

StartsWith(s, p) == Len(p) <= Len(s) /\ SubSeq(s, 1, Len(p)) = p

IsIntLiteral(s) ==
    LET t == Strip(s)
    IN  Len(t) > 0 /\ \A i \in 1..Len(t) : IndexIn(Digits, CharAt(t, i)) > 0

RECURSIVE DigitsValue(_)
DigitsValue(t) ==
    IF Len(t) = 0 THEN 0
    ELSE 10 * DigitsValue(SubSeq(t, 1, Len(t) - 1)) + (IndexIn(Digits, CharAt(t, Len(t))) - 1)

\* int(s): None when Python raises ValueError
ParseInt(s) == IF IsIntLiteral(s) THEN Some(DigitsValue(Strip(s))) ELSE None

-----------------------------------------------------------------------------
(* Scoring engine: app/services/scoring_service.py                          *)

EDUCATION_LEVELS == <<"high_school", "associate", "bachelor", "master", "doctorate", "phd">>

\* proficiency -> multiplier in tenths (entries spelled with ASCII letters)
LANGUAGE_PROFICIENCY_SCORES ==
    [p \in {"native", "fluent", "professional", "intermediate", "basic", "beginner",
            "muttersprachler", "verhandlungssicher", "fortgeschritten", "grundkenntnisse",
            "anadil", "ileri", "orta"} |->
        CASE p \in {"native", "muttersprachler", "anadil"} -> 10
          [] p = "fluent" -> 9
          [] p = "verhandlungssicher" -> 8
          [] p \in {"professional", "ileri"} -> 7
          [] p = "fortgeschritten" -> 6
          [] p \in {"intermediate", "orta"} -> 5
          [] p \in {"basic", "grundkenntnisse"} -> 3
          [] OTHER -> 2]

\* canonical name followed by its synonyms (entries spelled with ASCII letters)
SKILL_SYNONYMS == {
    <<"javascript", "js", "ecmascript", "es6", "es2015">>,
    <<"typescript", "ts">>,
    <<"python", "py", "python3">>,
    <<"java", "j2ee", "jee">>,
    <<"c++", "cpp", "cplusplus">>,
    <<"c#", "csharp", "c sharp", "dotnet", ".net">>,
    <<"react", "reactjs", "react.js">>,
    <<"angular", "angularjs", "angular.js">>,
    <<"vue", "vuejs", "vue.js">>,
    <<"nodejs", "node", "node.js">>,
    <<"express", "expressjs", "express.js">>,
    <<"sap", "sap erp", "sap ag">>,
    <<"abap", "abap/4">>,
    <<"fiori", "sap fiori", "sapui5", "ui5">>,
    <<"hana", "sap hana", "s/4hana", "s4hana">>,
    <<"btp", "sap btp", "business technology platform", "cloud foundry">>,
    <<"softwareentwicklung", "software development">>,
    <<"datenbanken", "databases">>,
    <<"programmierung", "programming", "programlama">>,
    <<"projektmanagement", "project management">>,
    <<"veri analizi", "data analysis", "datenanalyse">>,
    <<"web development", "webentwicklung">>,
    <<"aws", "amazon web services", "amazon aws">>,
    <<"azure", "microsoft azure", "ms azure">>,
    <<"gcp", "google cloud", "google cloud platform">>,
    <<"machine learning", "ml", "maschinelles lernen">>,
    <<"deep learning", "dl">>,
    <<"data science", "datenwissenschaft", "veri bilimi">>,
    <<"artificial intelligence", "ai", "ki", "yapay zeka">> }

Range(f) == {f[i] : i \in DOMAIN f}

\* {str(item).lower().strip() for item in items if item}
_normalize_set(items) == {Strip(Lower(items[i])) : i \in {k \in DOMAIN items : items[k] # ""}}

\* a dict (sequence of <<key, value>> pairs, later pairs win) or a list of names
_normalize_dict(items) ==
    IF items.form = "dict"
    THEN LET keys == {Lower(items.items[i][1]) : i \in DOMAIN items.items}
             last(k) == CHOOSE i \in DOMAIN items.items :
                            /\ Lower(items.items[i][1]) = k
                            /\ \A j \in DOMAIN items.items :
                                   Lower(items.items[j][1]) = k => j <= i
         IN  [k \in keys |-> Lower(items.items[last(k)][2])]
    ELSE IF items.form = "list"
    THEN [k \in {Lower(items.items[i]) : i \in {j \in DOMAIN items.items : items.items[j] # ""}}
              |-> "professional"]
    ELSE [k \in {} |-> ""]

_normalize_string(s) == IF s # "" THEN Strip(Lower(s)) ELSE ""

_check_skill_match(required_skill, candidate_skills) ==
    \/ required_skill \in candidate_skills
    \/ \E cs \in candidate_skills : Contains(cs, required_skill) \/ Contains(required_skill, cs)
    \/ \E group \in SKILL_SYNONYMS :
          /\ \E v \in Range(group) : Contains(v, required_skill)
          /\ \E variant \in Range(group) :
                \/ variant \in candidate_skills
                \/ \E cs \in candidate_skills : Contains(cs, variant) \/ Contains(variant, cs)

_get_education_rank(level0) ==
    LET level == Strip(Lower(level0))
        exact == {i \in DOMAIN EDUCATION_LEVELS : EDUCATION_LEVELS[i] = level}
        partial == {i \in DOMAIN EDUCATION_LEVELS :
                        Contains(level, EDUCATION_LEVELS[i]) \/ Contains(EDUCATION_LEVELS[i], level)}
        first(S) == CHOOSE i \in S : \A j \in S : i <= j
    IN  IF exact # {} THEN first(exact)
        ELSE IF partial # {} THEN first(partial)
        ELSE 0

_check_education_match(candidate_level, required_level) ==
    LET cand_rank == _get_education_rank(candidate_level)
        req_rank == _get_education_rank(required_level)
    IN  cand_rank >= req_rank /\ cand_rank > 0

Truthy(opt) == opt # None /\ opt[1] # 0

\* int(criterion.points * criterion.weight), weight in tenths
PointsPossible(criterion) == IntTrunc(criterion.points * criterion.weight, 10)

Outcome(matched, points) == [matched |-> matched, points |-> points, exception |-> ""]

ExperiencePerUnit(criterion, experience_years) ==
    LET points == IntTrunc(experience_years * criterion.per_unit_points[1], 10)
    IN  IF Truthy(criterion.max_points) /\ criterion.max_points[1] < points
        THEN criterion.max_points[1]
        ELSE points

_evaluate_criterion(criterion, skills, languages, certifications, experience_years, education_level) ==
    LET criterion_type == Lower(criterion.criteria_type)
        value == Lower(criterion.criteria_value)
        max_points == PointsPossible(criterion)
    IN  CASE criterion_type = "skill" ->
                 LET matched == _check_skill_match(value, skills)
                 IN  Outcome(matched, IF matched THEN max_points ELSE 0)
          [] criterion_type = "language" ->
                 IF value \in DOMAIN languages
                 THEN LET proficiency == languages[value]
                          score_multiplier ==
                              IF proficiency \in DOMAIN LANGUAGE_PROFICIENCY_SCORES
                              THEN LANGUAGE_PROFICIENCY_SCORES[proficiency] ELSE 5
                      IN  Outcome(TRUE, IntTrunc(max_points * score_multiplier, 10))
                 ELSE Outcome(FALSE, 0)
          [] criterion_type = "certification" ->
                 LET matched == \/ value \in certifications
                                \/ \E c \in certifications : Contains(c, value)
                 IN  Outcome(matched, IF matched THEN max_points ELSE 0)
          [] criterion_type = "experience" ->
                 LET parsed == IF Truthy(criterion.min_value) THEN criterion.min_value
                               ELSE ParseInt(criterion.criteria_value)
                 IN  IF parsed = None
                     THEN [matched |-> FALSE, points |-> 0, exception |-> "ValueError"]
                     ELSE LET min_years == parsed[1]
                          IN  IF experience_years >= min_years
                              THEN IF Truthy(criterion.per_unit_points)
                                   THEN Outcome(TRUE, ExperiencePerUnit(criterion, experience_years))
                                   ELSE Outcome(TRUE, max_points)
                              ELSE IF experience_years > 0 /\ ~criterion.is_required
                                   THEN Outcome(FALSE, IntTrunc(max_points * experience_years, min_years))
                                   ELSE Outcome(FALSE, 0)
          [] criterion_type = "education" ->
                 IF _check_education_match(education_level, value)
                 THEN Outcome(TRUE, max_points)
                 ELSE LET cand_rank == _get_education_rank(education_level)
                          req_rank == _get_education_rank(value)
                      IN  IF cand_rank > 0 /\ req_rank > 0
                          THEN Outcome(FALSE, IF ~criterion.is_required
                                              THEN IntTrunc(max_points * cand_rank, req_rank)
                                              ELSE 0)
                          ELSE Outcome(FALSE, 0)
          [] OTHER -> Outcome(FALSE, 0)

-----------------------------------------------------------------------------
(* ScoringService.calculate_score                                           *)

CriterionResult(criterion, result) ==
    [criteria_type |-> criterion.criteria_type,
     criteria_value |-> criterion.criteria_value,
     points_possible |-> PointsPossible(criterion),
     points_earned |-> result.points,
     is_required |-> criterion.is_required,
     matched |-> result.matched]

\* the running totals of the loop over the criteria
EmptyTotals ==
    [total_points |-> 0, max_points |-> 0,
     matched |-> <<>>, missing |-> <<>>, required_missing |-> <<>>, exception |-> ""]

\* one iteration of `for criterion in criteria`; an exception raised by
\* _evaluate_criterion leaves the totals and ends the loop
Accumulate(acc, criterion, result) ==
    IF result.exception # ""
    THEN [acc EXCEPT !.exception = result.exception]
    ELSE [acc EXCEPT
             !.max_points = @ + PointsPossible(criterion),
             !.total_points = IF result.matched THEN @ + result.points ELSE @,
             !.matched = IF result.matched THEN Append(@, CriterionResult(criterion, result)) ELSE @,
             !.missing = IF result.matched THEN @ ELSE Append(@, CriterionResult(criterion, result)),
             !.required_missing = IF ~result.matched /\ criterion.is_required
                                  THEN Append(@, CriterionResult(criterion, result)) ELSE @]

RECURSIVE ScoreLoop(_, _, _, _)
ScoreLoop(crits, i, norm, acc) ==
    IF i > Len(crits) \/ acc.exception # "" THEN acc
    ELSE ScoreLoop(crits, i + 1, norm,
                   Accumulate(acc, crits[i],
                              _evaluate_criterion(crits[i], norm.skills, norm.languages,
                                                  norm.certifications, norm.experience,
                                                  norm.education)))

\* round(total_points / max_points * 100, 2) if max_points > 0 else 0, in hundredths
Percentage(total_points, max_points) ==
    IF max_points > 0 THEN RoundHalfEven(total_points * 10000, max_points) ELSE 0

IsDisqualified_AnyMissing(acc) == Len(acc.missing) > 0

IsDisqualified(acc) == Len(acc.required_missing) > 0

\* "Missing required criteria: " followed by at most three names
DisqualificationReason(required_missing) ==
    [i \in 1..(IF Len(required_missing) < 3 THEN Len(required_missing) ELSE 3)
        |-> required_missing[i].criteria_value]

NormalizeCandidate(data) ==
    [skills |-> _normalize_set(data.skills),
     languages |-> _normalize_dict(data.languages),
     certifications |-> _normalize_set(data.certifications),
     experience |-> IF data.totalExperienceYears = None THEN 0 ELSE data.totalExperienceYears[1],
     education |-> _normalize_string(data.educationLevel)]

\* the ScoringResult built from the totals of the loop
ScoringResult(acc) ==
    [exception |-> acc.exception,
     total_points |-> acc.total_points,
     max_points |-> acc.max_points,
     percentage |-> Percentage(acc.total_points, acc.max_points),
     matched_criteria |-> acc.matched,
     missing_criteria |-> acc.missing,
     required_missing |-> acc.required_missing,
     disqualified |-> IsDisqualified(acc),
     disqualification_reason |->
         IF IsDisqualified(acc) THEN Some(DisqualificationReason(acc.required_missing)) ELSE None]

calculate_score(data, crits) ==
    IF Len(crits) = 0
    THEN [exception |-> "", total_points |-> 0, max_points |-> 0, percentage |-> 10000,
          matched_criteria |-> <<>>, missing_criteria |-> <<>>, required_missing |-> <<>>,
          disqualified |-> FALSE, disqualification_reason |-> None]
    ELSE ScoringResult(ScoreLoop(crits, 1, NormalizeCandidate(data), EmptyTotals))

-----------------------------------------------------------------------------
(* Inputs of calculate_score                                                *)

MaxCriteria == 2

Criterion(type, value, points, required, weight, min_value, per_unit_points, max_points) ==
    [criteria_type |-> type, criteria_value |-> value, points |-> points,
     is_required |-> required, weight |-> weight, min_value |-> min_value,
     per_unit_points |-> per_unit_points, max_points |-> max_points]

\* criteria the API accepts: points in 1..100, weight in 1..50 tenths
CriteriaPool == {
    Criterion("skill", "JavaScript", 10, TRUE, 10, None, None, None),
    Criterion("skill", "Python", 5, FALSE, 5, None, None, None),
    Criterion("skill", "go", 1, FALSE, 1, None, None, None),
    Criterion("language", "English", 10, FALSE, 10, None, None, None),
    Criterion("certification", "aws", 4, TRUE, 20, None, None, None),
    Criterion("experience", "4", 10, FALSE, 10, None, None, None),
    Criterion("experience", "4", 10, TRUE, 10, None, None, None),
    Criterion("experience", "2", 10, FALSE, 10, None, Some(50), None),
    Criterion("experience", "years", 10, FALSE, 15, Some(2), Some(50), Some(8)),
    Criterion("experience", "five", 10, FALSE, 10, Some(0), None, None),
    Criterion("education", "Master", 10, FALSE, 10, None, None, None),
    Criterion("education", "bachelor", 6, TRUE, 10, None, None, None),
    Criterion("custom", "driving licence", 5, FALSE, 10, None, None, None) }

Candidate(skills, languages, certifications, years, education) ==
    [skills |-> skills, languages |-> languages, certifications |-> certifications,
     totalExperienceYears |-> years, educationLevel |-> education]

Dict(items) == [form |-> "dict", items |-> items]
List(items) == [form |-> "list", items |-> items]

\* the placeholder profile of _get_candidate_data
PlaceholderCandidate == Candidate(<<>>, Dict(<<>>), <<>>, Some(0), "")

CandidatePool == {
    PlaceholderCandidate,
    Candidate(<<"JS", " Python ">>, Dict(<< <<"English", "Fluent">> >>),
              <<"AWS Certified Developer">>, Some(5), "Master"),
    Candidate(<<"java">>, List(<<"english", "German">>), <<>>, Some(2), "bachelor"),
    Candidate(<<"React.js", "">>, Dict(<< <<"english", "C1">>, <<"English", "basic">> >>),
              <<"aws">>, Some(10), "PhD in Physics"),
    Candidate(<<>>, Dict(<<>>), <<>>, None, "high_school"),
    Candidate(<<"cobol">>, Dict(<<>>), <<>>, Some(3), "associate") }

RECURSIVE SeqsUpTo(_, _)
SeqsUpTo(S, n) ==
    IF n = 0 THEN {<<>>}
    ELSE LET shorter == SeqsUpTo(S, n - 1)
         IN  shorter \cup {Append(q, x) : q \in shorter, x \in S}


-----------------------------------------------------------------------------
(* Match orchestrator: app/services/matching_service.py                     *)
(* An embedding is a pair of integers of Euclidean norm 10, so that the     *)
(* dot product of two stored vectors is their cosine in hundredths.         *)

semantic_weight == 4
criteria_weight == 6
default_min_score == 50
default_match_limit == 50

Min(a, b) == IF a < b THEN a ELSE b

\* np.dot of two unit vectors = 1 - cosine distance, in hundredths
compute_similarity(embedding1, embedding2) ==
    embedding1[1] * embedding2[1] + embedding1[2] * embedding2[2]

\* the items of a sequence, largest key first, equal keys in their original order
StableSortDesc(items, keys) ==
    LET n == Len(items)
        pos(i) == 1 + Cardinality({j \in 1..n : keys[j] > keys[i] \/ (keys[j] = keys[i] /\ j < i)})
    IN  [k \in 1..n |-> items[CHOOSE i \in 1..n : pos(i) = k]]

\* SELECT ... FROM table WHERE column = $1, rows in table order
Select(table, column, value) ==
    LET idx == {i \in DOMAIN table : table[i][column] = value}
        nth(k) == CHOOSE i \in idx : Cardinality({j \in idx : j < i}) = k - 1
    IN  [k \in 1..Cardinality(idx) |-> table[nth(k)]]

\* SELECT combined_embedding FROM job_embeddings WHERE job_posting_id = $1
_get_job_embedding(table, job_posting_id, query_fails) ==
    LET rows == Select(table, "job_posting_id", job_posting_id)
    IN  IF query_fails \/ Len(rows) = 0 THEN None ELSE Some(rows[1].combined_embedding)

\* SELECT combined_embedding FROM candidate_embeddings WHERE candidate_id = $1
_get_candidate_embedding(table, candidate_id, query_fails) ==
    LET rows == Select(table, "candidate_id", candidate_id)
    IN  IF query_fails \/ Len(rows) = 0 THEN None ELSE Some(rows[1].combined_embedding)

\* ORDER BY combined_embedding <=> $1 LIMIT $2: every order the store may
\* return, rows at equal distance in either order
_semantic_search(table, job_embedding, limit, query_fails) ==
    IF query_fails THEN {<<>>}
    ELSE LET n == Len(table)
             sim(i) == compute_similarity(table[i].combined_embedding, job_embedding)
             orders == {p \in [1..n -> 1..n] :
                           /\ \A i, j \in 1..n : i # j => p[i] # p[j]
                           /\ \A i \in 1..(n - 1) : sim(p[i]) >= sim(p[i + 1])}
         IN  {[k \in 1..Min(limit, n) |-> <<table[p[k]].candidate_id, sim(p[k])>>] : p \in orders}

_get_candidate_data(candidate_id) == PlaceholderCandidate

\* ORDER BY is_required DESC, sort_order, points DESC
CriteriaOrderKey(row) ==
    (IF row.criterion.is_required THEN 1000000 ELSE 0) - 1000 * row.sort_order + row.criterion.points

get_job_criteria(table, job_posting_id, query_fails) ==
    IF query_fails THEN <<>>
    ELSE LET rows == Select(table, "job_posting_id", job_posting_id)
             sorted == StableSortDesc(rows, [i \in DOMAIN rows |-> CriteriaOrderKey(rows[i])])
         IN  [i \in DOMAIN sorted |->
                 [sorted[i].criterion EXCEPT
                     !.weight = IF @ = 0 THEN 10 ELSE @,
                     !.per_unit_points = IF Truthy(@) THEN @ ELSE None]]

\* semantic_score * semantic_weight + criteria_percentage * criteria_weight, in thousandths
CombinedScore(cosine_sim, criteria_percentage) ==
    100 * semantic_weight * cosine_sim + criteria_weight * criteria_percentage

MatchResult(candidate_id, job_posting_id, cosine_sim, scoring, include_breakdown) ==
    [candidate_id |-> candidate_id,
     job_posting_id |-> job_posting_id,
     cosine_similarity |-> cosine_sim,
     criteria_score |-> scoring.total_points,
     criteria_max_score |-> scoring.max_points,
     combined_score |-> RoundHalfEven(CombinedScore(cosine_sim, scoring.percentage), 10),
     rank |-> 0,
     score_breakdown |->
         IF include_breakdown
         THEN Some([semantic_raw |-> cosine_sim,
                    semantic_weighted |-> 10 * semantic_weight * cosine_sim,
                    criteria_percentage |-> scoring.percentage,
                    criteria_weighted |-> RoundHalfEven(criteria_weight * scoring.percentage, 10)])
         ELSE None,
     matched_criteria |->
         IF include_breakdown
         THEN [i \in DOMAIN scoring.matched_criteria |->
                  [type |-> scoring.matched_criteria[i].criteria_type,
                   value |-> scoring.matched_criteria[i].criteria_value,
                   points |-> scoring.matched_criteria[i].points_earned]]
         ELSE <<>>,
     missing_criteria |->
         IF include_breakdown
         THEN [i \in DOMAIN scoring.missing_criteria |->
                  [type |-> scoring.missing_criteria[i].criteria_type,
                   value |-> scoring.missing_criteria[i].criteria_value,
                   is_required |-> scoring.missing_criteria[i].is_required]]
         ELSE <<>>,
     disqualified |-> scoring.disqualified]

\* one iteration of `for candidate_id, cosine_sim in semantic_results`, given
\* the candidate's scoring; an exception of calculate_score ends the loop
MatchStep(acc, candidate_id, job_posting_id, cosine_sim, scoring, min_score, include_breakdown, exclude_disqualified) ==
    IF scoring.exception # ""
    THEN [exception |-> scoring.exception, results |-> <<>>]
    ELSE IF \/ exclude_disqualified /\ scoring.disqualified
            \/ CombinedScore(cosine_sim, scoring.percentage) < 1000 * min_score
    THEN acc
    ELSE [acc EXCEPT !.results = Append(@, MatchResult(candidate_id, job_posting_id,
                                                       cosine_sim, scoring, include_breakdown))]

\* the loop `for candidate_id, cosine_sim in semantic_results`
RECURSIVE MatchLoop(_, _, _, _, _, _, _, _)
MatchLoop(semantic_results, i, job_posting_id, crits, min_score, include_breakdown, exclude_disqualified, acc) ==
    IF i > Len(semantic_results) \/ acc.exception # "" THEN acc
    ELSE MatchLoop(semantic_results, i + 1, job_posting_id, crits, min_score,
                   include_breakdown, exclude_disqualified,
                   MatchStep(acc, semantic_results[i][1], job_posting_id, semantic_results[i][2],
                             calculate_score(_get_candidate_data(semantic_results[i][1]), crits),
                             min_score, include_breakdown, exclude_disqualified))

\* results.sort(key=lambda x: x.combined_score, reverse=True)
SortResults(results) ==
    StableSortDesc(results, [i \in DOMAIN results |-> results[i].combined_score])

\* result.rank = i + 1 for results[:limit]; return results[:limit]
RankAndTruncate_ZeroBased(results, limit) ==
    [i \in 1..Min(limit, Len(results)) |-> [results[i] EXCEPT !.rank = i - 1]]

RankAndTruncate(results, limit) ==
    [i \in 1..Min(limit, Len(results)) |-> [results[i] EXCEPT !.rank = i]]

\* the results of the loop, sorted, ranked and cut to the limit
RankedResults(loop, limit) ==
    IF loop.exception # "" THEN loop
    ELSE [exception |-> "", results |-> RankAndTruncate(SortResults(loop.results), limit)]

\* find_matches after its three store reads
find_matches(job_posting_id, job_embedding, crits, semantic_results, min_score_arg, limit_arg, include_breakdown, exclude_disqualified) ==
    IF job_embedding = None \/ Len(semantic_results) = 0
    THEN [exception |-> "", results |-> <<>>]
    ELSE RankedResults(
             MatchLoop(semantic_results, 1, job_posting_id, crits,
                       IF min_score_arg = None THEN default_min_score ELSE min_score_arg[1],
                       include_breakdown, exclude_disqualified,
                       [exception |-> "", results |-> <<>>]),
             IF Truthy(limit_arg) THEN limit_arg[1] ELSE default_match_limit)

\* calculate_single_match after its store reads
\* the MatchResult of one pair, given its similarity and its scoring
SingleResult(candidate_id, job_posting_id, cosine_sim, scoring) ==
    IF scoring.exception # ""
    THEN [exception |-> scoring.exception, result |-> None]
    ELSE [exception |-> "",
          result |-> Some(MatchResult(candidate_id, job_posting_id, cosine_sim, scoring, TRUE))]

calculate_single_match(candidate_id, job_posting_id, candidate_embedding, job_embedding, crits) ==
    IF candidate_embedding = None \/ job_embedding = None
    THEN [exception |-> "", result |-> None]
    ELSE SingleResult(candidate_id, job_posting_id,
                      compute_similarity(candidate_embedding[1], job_embedding[1]),
                      calculate_score(_get_candidate_data(candidate_id), crits))

-----------------------------------------------------------------------------
(* Matching endpoints: app/api/routes/matching.py                           *)

\* POST /api/matching/semantic
find_semantic_matches(request, found) ==
    [op |-> "semantic",
     candidate_id |-> 0,
     job_posting_id |-> request.job_posting_id,
     limit |-> request.limit,
     status |-> IF found.exception # "" THEN 500 ELSE 200,
     matches |-> IF found.exception # "" THEN <<>> ELSE found.results]

\* the status of POST /api/matching/single
SingleMatchStatus_NotReraised(match) ==
    IF match.exception # "" \/ match.result = None THEN 500 ELSE 200

SingleMatchStatus(match) ==
    IF match.exception # "" THEN 500
    ELSE IF match.result = None THEN 404
    ELSE 200

\* POST /api/matching/single
single_match_route(request, match) ==
    [op |-> "single",
     candidate_id |-> request.candidate_id,
     job_posting_id |-> request.job_posting_id,
     limit |-> None,
     status |-> SingleMatchStatus(match),
     matches |-> IF SingleMatchStatus(match) = 200 THEN <<match.result[1]>> ELSE <<>>]

-----------------------------------------------------------------------------
(* Embedding service: app/services/embedding_service.py                     *)

\* hashlib.sha256(content.encode()).hexdigest(): the digest is carried as the
\* number that spells the content in base 27, one digit per lower-case letter
RECURSIVE _compute_hash(_)
_compute_hash(content) ==
    IF Len(content) = 0 THEN 0
    ELSE 27 * _compute_hash(SubSeq(content, 1, Len(content) - 1))
             + IndexIn(LowerCase, CharAt(content, Len(content)))

\* the embedding model: the unit vector it emits for a text
encode_single(content) ==
    CASE content = "ab" -> <<10, 0>>
      [] content = "a" -> <<8, 6>>
      [] content = "b" -> <<6, 8>>
      [] content = "c" -> <<-6, -8>>
      [] OTHER -> <<0, 10>>

ISqrt(n) == CHOOSE r \in 0..n : r * r <= n /\ n < (r + 1) * (r + 1)

RECURSIVE WeightedSum(_, _, _)
WeightedSum(embeddings, weights, axis) ==
    IF Len(embeddings) = 0 THEN 0
    ELSE weights[1] * embeddings[1][axis] + WeightedSum(Tail(embeddings), Tail(weights), axis)

\* np.average(embeddings, weights=weights / sum(weights)), then division by
\* the norm when it is positive; the result is rounded to the carried
\* precision (a vector of norm 10 with integer coordinates)
combine_embeddings(embeddings, weights) ==
    LET sx == WeightedSum(embeddings, weights, 1)
        sy == WeightedSum(embeddings, weights, 2)
        norm == ISqrt(sx * sx + sy * sy)
    IN  IF norm > 0
        THEN <<RoundHalfEven(10 * sx, norm), RoundHalfEven(10 * sy, norm)>>
        ELSE <<0, 0>>

EmbedRequest(candidate_id, cv_text, skills_text, experience_text, store) ==
    [candidate_id |-> candidate_id, cv_text |-> cv_text, skills_text |-> skills_text,
     experience_text |-> experience_text, store |-> store]

OrEmpty(opt) == IF opt = None THEN "" ELSE opt[1]

\* generate_candidate_embedding up to its await: the embeddings, the content
\* hash and the row to be written
PrepareEmbedding(request) ==
    LET cv_embedding == IF request.cv_text # "" THEN Some(encode_single(request.cv_text)) ELSE None
        skills_embedding == IF OrEmpty(request.skills_text) # ""
                            THEN Some(encode_single(request.skills_text[1])) ELSE None
        experience_embedding == IF OrEmpty(request.experience_text) # ""
                                THEN Some(encode_single(request.experience_text[1])) ELSE None
        embeddings_to_combine == cv_embedding \o skills_embedding \o experience_embedding
        weights == (IF cv_embedding # None THEN <<5>> ELSE <<>>)
                       \o (IF skills_embedding # None THEN <<3>> ELSE <<>>)
                       \o (IF experience_embedding # None THEN <<2>> ELSE <<>>)
        content_hash == _compute_hash(request.cv_text \o OrEmpty(request.skills_text)
                                          \o OrEmpty(request.experience_text))
    IN  IF Len(embeddings_to_combine) = 0
        THEN [exception |-> "ValueError", content_hash |-> 0, row |-> None]
        ELSE [exception |-> "",
              content_hash |-> content_hash,
              row |-> Some([candidate_id |-> request.candidate_id,
                            cv_text_embedding |-> cv_embedding,
                            skills_embedding |-> skills_embedding,
                            experience_embedding |-> experience_embedding,
                            combined_embedding |->
                                combine_embeddings(embeddings_to_combine, weights),
                            cv_text_hash |-> content_hash])]

\* INSERT INTO candidate_embeddings ... ON CONFLICT (candidate_id) DO UPDATE SET ...
_store_candidate_embedding(table, row) ==
    IF \E k \in DOMAIN table : table[k].candidate_id = row.candidate_id
    THEN [k \in DOMAIN table |->
             IF table[k].candidate_id = row.candidate_id THEN row ELSE table[k]]
    ELSE Append(table, row)

-----------------------------------------------------------------------------
(* The store as the matching requests find it                               *)

MaxCandidates == 2
MaxJobs == 2

CandidateIds == 1..MaxCandidates
JobIds == 1..MaxJobs

\* unit vectors the embedding model can emit
CandidateVectors == {<<10, 0>>, <<8, 6>>, <<-6, -8>>}
JobVectors == {<<10, 0>>}

CandidateRow(candidate_id, combined_embedding) ==
    [candidate_id |-> candidate_id,
     cv_text_embedding |-> Some(combined_embedding),
     skills_embedding |-> None,
     experience_embedding |-> None,
     combined_embedding |-> combined_embedding,
     cv_text_hash |-> _compute_hash("cv")]

JobRow(job_posting_id, combined_embedding) ==
    [job_posting_id |-> job_posting_id, combined_embedding |-> combined_embedding]

CriteriaRow(job_posting_id, sort_order, criterion) ==
    [job_posting_id |-> job_posting_id, sort_order |-> sort_order, criterion |-> criterion]

\* one row per key at most: the tables are unique on the entity id; the
\* entities 1..k have a row, the entities after k have none
RECURSIVE CandidateTables(_)
CandidateTables(n) ==
    IF n = 0 THEN {<<>>}
    ELSE LET shorter == CandidateTables(n - 1)
         IN  shorter \cup {Append(t, CandidateRow(n, v)) :
                              t \in {s \in shorter : Len(s) = n - 1}, v \in CandidateVectors}

RECURSIVE JobTables(_)
JobTables(n) ==
    IF n = 0 THEN {<<>>}
    ELSE LET shorter == JobTables(n - 1)
         IN  shorter \cup {Append(t, JobRow(n, v)) :
                              t \in {s \in shorter : Len(s) = n - 1}, v \in JobVectors}

CriteriaTables == {
    <<>>,
    << CriteriaRow(1, 0, Criterion("skill", "JavaScript", 10, TRUE, 10, None, None, None)),
       CriteriaRow(1, 1, Criterion("education", "high_school", 10, FALSE, 10, None, None, None)) >>,
    << CriteriaRow(1, 2, Criterion("experience", "4", 10, FALSE, 10, None, None, None)),
       CriteriaRow(1, 1, Criterion("education", "high_school", 10, FALSE, 0, None, Some(0), None)),
       CriteriaRow(2, 0, Criterion("experience", "0", 30, FALSE, 10, None, Some(20), Some(5))),
       CriteriaRow(2, 0, Criterion("skill", "go", 10, FALSE, 10, None, None, None)) >> }

NoResponse ==
    [op |-> "", candidate_id |-> 0, job_posting_id |-> 0, limit |-> None,
     status |-> 0, matches |-> <<>>]

\* min_score: Optional, 0..100; limit: Optional, 1..500
MinScores == {None, Some(0), Some(70)}
Limits == {None, Some(1), Some(2)}

-----------------------------------------------------------------------------
(* SemanticMatchingService.store_match_result                               *)

MatchRow(result, criteria_percentage) ==
    [candidate_id |-> result.candidate_id,
     job_posting_id |-> result.job_posting_id,
     cosine_similarity |-> result.cosine_similarity,
     criteria_score |-> result.criteria_score,
     criteria_max_score |-> result.criteria_max_score,
     criteria_percentage |-> criteria_percentage,
     combined_score |-> result.combined_score,
     rank |-> result.rank,
     score_breakdown |-> result.score_breakdown,
     matched_criteria |-> result.matched_criteria,
     missing_criteria |-> result.missing_criteria]

\* round(criteria_score / criteria_max_score * 100, 2) if criteria_max_score > 0 else 0
CriteriaPercentage(result) ==
    IF result.criteria_max_score > 0
    THEN RoundHalfEven(10000 * result.criteria_score, result.criteria_max_score)
    ELSE 0

\* INSERT ... ON CONFLICT (candidate_id, job_posting_id) DO UPDATE SET
\* cosine_similarity, criteria_score, combined_score, rank, score_breakdown
UpsertMatchRow(table, new) ==
    IF \E k \in DOMAIN table : /\ table[k].candidate_id = new.candidate_id
                               /\ table[k].job_posting_id = new.job_posting_id
    THEN [k \in DOMAIN table |->
             IF /\ table[k].candidate_id = new.candidate_id
                /\ table[k].job_posting_id = new.job_posting_id
             THEN [table[k] EXCEPT !.cosine_similarity = new.cosine_similarity,
                                   !.criteria_score = new.criteria_score,
                                   !.combined_score = new.combined_score,
                                   !.rank = new.rank,
                                   !.score_breakdown = new.score_breakdown]
             ELSE table[k]]
    ELSE Append(table, new)

store_match_result(table, result, execute_fails) ==
    IF execute_fails THEN [table |-> table, success |-> FALSE]
    ELSE [table |-> UpsertMatchRow(table, MatchRow(result, CriteriaPercentage(result))),
          success |-> TRUE]

-----------------------------------------------------------------------------
(* Work-history parser: parse_work_history in app/api/routes/ocr_extraction.py *)
(* Patterns are matched on the ASCII characters of the lines.                 *)

\* every character of s[a..b] belongs to the alphabet (true of an empty range)
AllIn(s, a, b, alphabet) ==
    \A k \in a..b : k <= Len(s) /\ IndexIn(alphabet, CharAt(s, k)) > 0

DigitChars == {CharAt(Digits, k) : k \in 1..Len(Digits)}

\* \d{4} at position p
IsYearAt(s, p) ==
    p >= 1 /\ p + 3 <= Len(s) /\ \A k \in p..(p + 3) : CharAt(s, k) \in DigitChars

\* s[p..] begins with w
HasAt(s, p, w) == p >= 1 /\ p + Len(w) - 1 <= Len(s) /\ SubSeq(s, p, p + Len(w) - 1) = w

\* \s* from position k: the first position that is not whitespace
RECURSIVE SkipSpaces(_, _)
SkipSpaces(s, k) ==
    IF k <= Len(s) /\ IsSpace(CharAt(s, k)) THEN SkipSpaces(s, k + 1) ELSE k

\* (?:Jan|Feb|...|Dec) of date_pattern
MonthPrefixes ==
    {"jan", "feb", "mar", "apr", "may", "jun", "jul", "aug", "sep", "oct", "nov", "dec"}

MonthAt(s, c) == c + 2 <= Len(s) /\ SubSeq(s, c, c + 2) \in MonthPrefixes

\* the ASCII members of the class [-...to] of date_pattern
Separators == "-to"

EndWords == {"present", "current", "now"}

\* (Present|Current|Now|\d{4}) at position e: the length matched, 0 when none
EndTokenLength(s, e) ==
    IF \E w \in EndWords : HasAt(s, e, w)
    THEN Len(CHOOSE w \in EndWords : HasAt(s, e, w))
    ELSE IF IsYearAt(s, e) THEN 4 ELSE 0

\* the rest of date_pattern after a separator run ending at b: the position
\* of the end token, 0 when this path fails.  The optional month group is
\* tried first, its [a-z]* longest first, then the path without the group.
EndAfterSeparator(s, b) ==
    LET c == SkipSpaces(s, b + 1)
        withMonth == IF MonthAt(s, c)
                     THEN {d \in (c + 2)..Len(s) :
                              /\ AllIn(s, c + 3, d, LowerCase)
                              /\ EndTokenLength(s, SkipSpaces(s, d + 1)) > 0}
                     ELSE {}
    IN  IF withMonth # {}
        THEN SkipSpaces(s, (CHOOSE d \in withMonth : \A o \in withMonth : o <= d) + 1)
        ELSE IF EndTokenLength(s, c) > 0 THEN c ELSE 0

\* date_pattern from the year at p on: the position of the end token, 0 when
\* the pattern does not match there.  The separator run is tried longest first.
EndOfMatch(s, p) ==
    LET a == SkipSpaces(s, p + 4)
        runs == {b \in a..Len(s) : AllIn(s, a, b, Separators) /\ EndAfterSeparator(s, b) > 0}
    IN  IF IsYearAt(s, p) /\ runs # {}
        THEN EndAfterSeparator(s, CHOOSE b \in runs : \A o \in runs : o <= b)
        ELSE 0

\* re.search(date_pattern, line, re.IGNORECASE): None, or groups 1 and 2 of
\* the leftmost match
date_search(line) ==
    LET s == Lower(line)
        starts == {p \in 1..Len(s) : EndOfMatch(s, p) > 0}
    IN  IF starts = {} THEN None
        ELSE LET p == CHOOSE q \in starts : \A o \in starts : q <= o
                 e == EndOfMatch(s, p)
             IN  Some([group1 |-> SubSeq(line, p, p + 3),
                       group2 |-> SubSeq(line, e, e + EndTokenLength(s, e) - 1)])

\* text.split('\n')
RECURSIVE SplitLines(_)
SplitLines(content) ==
    IF \E k \in 1..Len(content) : CharAt(content, k) = "\n"
    THEN LET k == CHOOSE q \in 1..Len(content) :
                      /\ CharAt(content, q) = "\n"
                      /\ \A o \in 1..(q - 1) : CharAt(content, o) # "\n"
         IN  <<SubSeq(content, 1, k - 1)>> \o SplitLines(SubSeq(content, k + 1, Len(content)))
    ELSE <<content>>

\* [l.strip() for l in ... if l.strip()]
RECURSIVE StrippedNonEmpty(_)
StrippedNonEmpty(raw) ==
    IF Len(raw) = 0 THEN <<>>
    ELSE (IF Strip(raw[1]) # "" THEN <<Strip(raw[1])>> ELSE <<>>) \o StrippedNonEmpty(Tail(raw))

\* lines = [l.strip() for l in text.strip().split('\n') if l.strip()]
SplitText(content) == StrippedNonEmpty(SplitLines(Strip(content)))

month_names ==
    {"jan", "feb", "mar", "apr", "may", "jun", "jul", "aug", "sep", "oct", "nov", "dec",
     "january", "february", "march", "april", "june", "july", "august", "september",
     "october", "november", "december"}

company_indicators ==
    {"inc", "ltd", "llc", "corp", "gmbh", "ag", "co.", "company", "solutions",
     "technologies", "services", "consulting", "software", ".com"}

job_title_indicators ==
    {"/", "engineer", "developer", "manager", "specialist", "analyst", "consultant",
     "lead", "senior", "junior", "intern"}

\* any(ind in s.lower() for ind in indicators)
AnyIn(indicators, s) ==
    LET lowered == Lower(s)
    IN  \E ind \in indicators : Contains(lowered, ind)

\* re.sub(r'[-...]+$', '', s)
RECURSIVE StripTrailingDashes(_)
StripTrailingDashes(s) ==
    IF Len(s) > 0 /\ CharAt(s, Len(s)) = "-"
    THEN StripTrailingDashes(SubSeq(s, 1, Len(s) - 1)) ELSE s

\* re.split(r'\d{4}', line)[0]
BeforeFirstYear(line) ==
    IF \E p \in 1..Len(line) : IsYearAt(line, p)
    THEN SubSeq(line, 1, (CHOOSE p \in 1..Len(line) :
                              IsYearAt(line, p) /\ \A o \in 1..(p - 1) : ~IsYearAt(line, o)) - 1)
    ELSE line

\* re.split(r'\|', line)[0]
BeforeFirstPipe(line) ==
    SubSeq(line, 1, (CHOOSE p \in 1..Len(line) :
                         CharAt(line, p) = "|" /\ \A o \in 1..(p - 1) : CharAt(line, o) # "|") - 1)

\* re.sub(r'[-...]+\s*$', '', company_part).strip()
CleanCompany(company_part) ==
    LET t == RStrip(company_part)
    IN  IF Len(t) > 0 /\ CharAt(t, Len(t)) = "-"
        THEN Strip(StripTrailingDashes(t)) ELSE Strip(company_part)

\* title and company of the job whose date anchor is ls[k]
JobHeader(ls, k) ==
    LET line == ls[k]
        previous == IF k > 1 THEN ls[k - 1] ELSE ""
        pre_date_text == Strip(StripTrailingDashes(Strip(BeforeFirstYear(line))))
        is_just_month == Lower(pre_date_text) \in month_names
        lookback ==
            IF k >= 3
            THEN LET prev1 == ls[k - 1]
                     prev2 == ls[k - 2]
                     prev1_is_company == AnyIn(company_indicators, prev1)
                     prev2_is_company == AnyIn(company_indicators, prev2)
                     prev1_is_title == AnyIn(job_title_indicators, prev1)
                     prev2_is_title == AnyIn(job_title_indicators, prev2)
                 IN  IF prev1_is_company /\ ~prev2_is_company
                         THEN [job_title |-> prev2, company_part |-> prev1]
                     ELSE IF prev2_is_company /\ ~prev1_is_company
                         THEN [job_title |-> prev1, company_part |-> prev2]
                     ELSE IF prev2_is_title /\ ~prev1_is_title
                         THEN [job_title |-> prev2, company_part |-> prev1]
                     ELSE IF prev1_is_title /\ ~prev2_is_title
                         THEN [job_title |-> prev1, company_part |-> prev2]
                     ELSE [job_title |-> prev2, company_part |-> prev1]
            ELSE [job_title |-> previous, company_part |-> ""]
        found ==
            IF Contains(line, "|")
            THEN [job_title |-> previous, company_part |-> Strip(BeforeFirstPipe(line))]
            ELSE IF pre_date_text # "" /\ ~is_just_month
            THEN [job_title |-> previous, company_part |-> pre_date_text]
            ELSE lookback
    IN  [job_title |-> found.job_title, company_part |-> CleanCompany(found.company_part)]

\* the inner loop's test for the next job: another line with the date pattern
IsNextJob_Never(next_line) == FALSE

IsNextJob(next_line) == date_search(next_line) # None

\* next_line.startswith(('-', bullet, '*')) or responsibilities
IsCollected(next_line, collected) ==
    StartsWith(next_line, "-") \/ StartsWith(next_line, "*") \/ Len(collected) > 0

RECURSIVE JoinLines(_)
JoinLines(ls) ==
    IF Len(ls) = 0 THEN ""
    ELSE IF Len(ls) = 1 THEN ls[1]
    ELSE ls[1] \o "\n" \o JoinLines(Tail(ls))

JobRecord(header, dates, collected) ==
    [jobTitle |-> [value |-> header.job_title,
                   confidence |-> IF header.job_title # "" THEN 90 ELSE 50],
     company |-> [value |-> header.company_part,
                  confidence |-> IF header.company_part # "" THEN 85 ELSE 50],
     startDate |-> [value |-> dates.group1, confidence |-> 95],
     endDate |-> [value |-> dates.group2, confidence |-> 95],
     responsibilities |-> [value |-> JoinLines(collected), confidence |-> 80]]

MaxLines == 4

\* lines a work-history section is made of
LinePool ==
    {"Lead Dev", "Acme | 2020 - Now", "- APIs", " ", "Jan 2018 to 2020", "Led 2000"}

-----------------------------------------------------------------------------
(* Education parser: parse_education in app/api/routes/ocr_extraction.py    *)
(* Patterns and indicator lists are taken on their ASCII members.           *)

WordChars == {CharAt(LowerCase \o UpperCase \o Digits \o "_", k) : k \in 1..(2 * Len(LowerCase) + Len(Digits) + 1)}

\* \w at position p
IsWordAt(s, p) == p >= 1 /\ p <= Len(s) /\ CharAt(s, p) \in WordChars

\* year_pattern \b(?:19|20)\d{2}\b at position p
YearPatternAt(s, p) ==
    /\ HasAt(s, p, "19") \/ HasAt(s, p, "20")
    /\ p + 3 <= Len(s)
    /\ CharAt(s, p + 2) \in DigitChars
    /\ CharAt(s, p + 3) \in DigitChars
    /\ ~IsWordAt(s, p - 1)
    /\ ~IsWordAt(s, p + 4)

\* the start positions of re.findall(year_pattern, s)
YearPositions(s) == {p \in 1..Len(s) : YearPatternAt(s, p)}

\* the year at the largest of the positions, "" when there is none
YearAtLast(s, positions) ==
    IF positions = {} THEN ""
    ELSE SubSeq(s, CHOOSE p \in positions : \A o \in positions : o <= p,
                (CHOOSE p \in positions : \A o \in positions : o <= p) + 3)

\* all_years[-1] of re.findall(year_pattern, s), "" when all_years is empty
LastYear(s) == YearAtLast(s, YearPositions(s))

institution_indicators == {"university", "college", "institute", "school", "academy"}

degree_starters ==
    {"bachelor", "master", "doctor", "ph.d", "phd", "associate", "diploma", "certificate",
     "b.s.", "b.a.", "m.s.", "m.a.", "mba"}

\* any(s.startswith(starter) for starter in degree_starters), s lower-cased
StartsWithAny(s, starters) == \E starter \in starters : StartsWith(s, starter)

is_degree_start(line) == StartsWithAny(Lower(line), degree_starters)

\* re.sub(r'^[-\s]+', '', s): the leading run of dashes and whitespace removed
RECURSIVE StripLeadingBullets(_)
StripLeadingBullets(s) ==
    IF Len(s) > 0 /\ (CharAt(s, 1) = "-" \/ IsSpace(CharAt(s, 1)))
    THEN StripLeadingBullets(SubSeq(s, 2, Len(s))) ELSE s

\* the start of the whitespace run that ends just before position d
RECURSIVE SpacesBefore(_, _)
SpacesBefore(s, d) ==
    IF d > 1 /\ IsSpace(CharAt(s, d - 1)) THEN SpacesBefore(s, d - 1) ELSE d

\* s cut at the leftmost match of \s*\d{4}, given the positions of \d{4}
CutAtFirst(s, positions) ==
    IF positions = {} THEN s
    ELSE SubSeq(s, 1, SpacesBefore(s, CHOOSE p \in positions : \A o \in positions : p <= o) - 1)

\* re.sub(r'\s*\d{4}.*$', '', s)
CutFromYear(s) == CutAtFirst(s, {p \in 1..Len(s) : IsYearAt(s, p)})

\* institution = re.sub(bullets, '', line).strip(); re.sub(year.., '', institution).strip()
CleanInstitution(line) == Strip(CutFromYear(Strip(StripLeadingBullets(line))))

\* the first loop after a degree start: the index of the first line at or
\* after j that is an institution, has a year or starts with a bullet
RECURSIVE ContinuationEnd(_, _)
ContinuationEnd(ls, j) ==
    IF j > Len(ls) THEN j
    ELSE IF \/ AnyIn(institution_indicators, ls[j])
            \/ YearPositions(ls[j]) # {}
            \/ StartsWith(ls[j], "-")
    THEN j
    ELSE ContinuationEnd(ls, j + 1)

\* ' '.join(parts)
RECURSIVE JoinWithSpace(_)
JoinWithSpace(parts) ==
    IF Len(parts) = 0 THEN ""
    ELSE IF Len(parts) = 1 THEN parts[1]
    ELSE parts[1] \o " " \o JoinWithSpace(Tail(parts))

\* one pass of `while j < len(lines)` that looks for institution and year
ScanStep(check_line, found) ==
    [institution |-> IF AnyIn(institution_indicators, check_line)
                     THEN CleanInstitution(check_line) ELSE found.institution,
     graduation_year |-> IF YearPositions(check_line) # {}
                         THEN LastYear(check_line) ELSE found.graduation_year]

\* the second loop: j where it stops, and the institution and year found.
\* A break leaves j on the line that caused it.
RECURSIVE ScanInstitution(_, _, _)
RECURSIVE ScanStopped(_, _, _)
ScanInstitution(ls, j, found) ==
    IF j > Len(ls) THEN [j |-> j, found |-> found]
    ELSE ScanStopped(ls, j, ScanStep(ls[j], found))

ScanStopped(ls, j, found) ==
    IF \/ found.institution # "" /\ found.graduation_year # ""
       \/ is_degree_start(ls[j])
    THEN [j |-> j, found |-> found]
    ELSE ScanInstitution(ls, j + 1, found)

DegreeRecord(full_degree, found) ==
    [degree |-> [value |-> full_degree, confidence |-> 92],
     fieldOfStudy |-> [value |-> "", confidence |-> 50],
     institution |-> [value |-> found.institution,
                      confidence |-> IF found.institution # "" THEN 88 ELSE 50],
     graduationYear |-> [value |-> found.graduation_year,
                         confidence |-> IF found.graduation_year # "" THEN 95 ELSE 50]]

\* for k in range(i - 1, max(i - 3, -1), -1): the nearest of the two previous
\* lines that carries no institution indicator, "" when there is none
prev_degree(ls, i) ==
    IF i >= 2 /\ ~AnyIn(institution_indicators, ls[i - 1]) THEN ls[i - 1]
    ELSE IF i >= 3 /\ ~AnyIn(institution_indicators, ls[i - 2]) THEN ls[i - 2]
    ELSE ""

\* the year of the line, else the year of the next line
FallbackYear(ls, i) ==
    IF YearPositions(ls[i]) # {} THEN LastYear(ls[i])
    ELSE IF i + 1 <= Len(ls) THEN LastYear(ls[i + 1])
    ELSE ""

InstitutionRecord(degree, institution, graduation_year) ==
    [degree |-> [value |-> degree, confidence |-> IF degree # "" THEN 70 ELSE 50],
     fieldOfStudy |-> [value |-> "", confidence |-> 50],
     institution |-> [value |-> institution, confidence |-> 88],
     graduationYear |-> [value |-> graduation_year,
                         confidence |-> IF graduation_year # "" THEN 95 ELSE 50]]

\* the outer loop `while i < len(lines)`; after a degree entry i = j
RECURSIVE EducationLoop(_, _, _)
RECURSIVE DegreeEntry(_, _, _, _)
RECURSIVE DegreeScanned(_, _, _, _)
EducationLoop(ls, i, education_list) ==
    IF i > Len(ls) THEN education_list
    ELSE IF is_degree_start(ls[i])
    THEN DegreeEntry(ls, i, ContinuationEnd(ls, i + 1), education_list)
    ELSE IF AnyIn(institution_indicators, ls[i])
    THEN EducationLoop(ls, i + 1,
                       Append(education_list,
                              InstitutionRecord(prev_degree(ls, i), CleanInstitution(ls[i]),
                                                FallbackYear(ls, i))))
    ELSE EducationLoop(ls, i + 1, education_list)

\* the entry of the degree that starts at line i and continues up to line j - 1
DegreeEntry(ls, i, j, education_list) ==
    DegreeScanned(ls, JoinWithSpace(SubSeq(ls, i, j - 1)),
                  ScanInstitution(ls, j, [institution |-> "", graduation_year |-> ""]),
                  education_list)

DegreeScanned(ls, full_degree, scan, education_list) ==
    EducationLoop(ls, scan.j, Append(education_list, DegreeRecord(full_degree, scan.found)))

parse_education(content) == EducationLoop(SplitText(content), 1, <<>>)

MaxEducationLines == 3

\* lines an education section is made of
EducationLinePool ==
    {"Master of Arts", "MIT University | 2017", "in Physics", "2019", "- Tech College",
     "B.S. Math 1999-2003"}

-----------------------------------------------------------------------------
(* Skills parser: parse_skills in app/api/routes/ocr_extraction.py          *)
(* Patterns are matched on the ASCII characters of the text.                *)

\* s.split(sep) for a one-character sep
RECURSIVE SplitBy(_, _)
SplitBy(s, sep) ==
    IF \E k \in 1..Len(s) : CharAt(s, k) = sep
    THEN <<SubSeq(s, 1, (CHOOSE q \in 1..Len(s) :
                             /\ CharAt(s, q) = sep
                             /\ \A o \in 1..(q - 1) : CharAt(s, o) # sep) - 1)>>
         \o SplitBy(SubSeq(s, (CHOOSE q \in 1..Len(s) :
                                   /\ CharAt(s, q) = sep
                                   /\ \A o \in 1..(q - 1) : CharAt(s, o) # sep) + 1, Len(s)), sep)
    ELSE <<s>>

section_boundaries ==
    {"languages", "language", "reference", "references", "certifications",
     "projects", "hobbies", "interests", "awards", "publications"}

\* the lines before the first line that is a section boundary
RECURSIVE truncated_lines(_)
truncated_lines(ls) ==
    IF Len(ls) = 0 \/ Strip(Lower(ls[1])) \in section_boundaries THEN <<>>
    ELSE <<ls[1]>> \o truncated_lines(Tail(ls))

\* re.sub(r'\n+', ',', s)
RECURSIVE NewlinesToCommas(_)
NewlinesToCommas(s) ==
    IF Len(s) = 0 THEN s
    ELSE IF CharAt(s, 1) # "\n" THEN CharAt(s, 1) \o NewlinesToCommas(SubSeq(s, 2, Len(s)))
    ELSE IF Len(s) >= 2 /\ CharAt(s, 2) = "\n" THEN NewlinesToCommas(SubSeq(s, 2, Len(s)))
    ELSE "," \o NewlinesToCommas(SubSeq(s, 2, Len(s)))

\* the position after \s*-\s+ matched from position from on, 0 when it does not match
AfterDashBullet(s, from) ==
    IF /\ SkipSpaces(s, from) <= Len(s)
       /\ CharAt(s, SkipSpaces(s, from)) = "-"
       /\ SkipSpaces(s, SkipSpaces(s, from) + 1) > SkipSpaces(s, from) + 1
    THEN SkipSpaces(s, SkipSpaces(s, from) + 1)
    ELSE 0

\* re.sub(r'(^|,)\s*-\s+', r'\1', normalized) on one comma-separated entry
StripEntryBullet(entry) ==
    IF AfterDashBullet(entry, 1) > 0 THEN SubSeq(entry, AfterDashBullet(entry, 1), Len(entry))
    ELSE entry

\* re.sub(r'^-\s+', '', skill)
StripDashBullet(skill) ==
    IF StartsWith(skill, "-") /\ SkipSpaces(skill, 2) > 2
    THEN SubSeq(skill, SkipSpaces(skill, 2), Len(skill)) ELSE skill

\* re.sub(r'^\(([^)]+)\)$', r'\1', skill)
StripParentheses(skill) ==
    IF /\ Len(skill) >= 3
       /\ CharAt(skill, 1) = "("
       /\ CharAt(skill, Len(skill)) = ")"
       /\ \A k \in 2..(Len(skill) - 1) : CharAt(skill, k) # ")"
    THEN SubSeq(skill, 2, Len(skill) - 1) ELSE skill

\* the clean-up of one raw skill, lines 542-549
CleanSkill(raw) == Strip(StripParentheses(StripDashBullet(Strip(raw))))

\* len(s.split())
WordCount(s) ==
    Cardinality({p \in 1..Len(s) :
                    ~IsSpace(CharAt(s, p)) /\ (p = 1 \/ IsSpace(CharAt(s, p - 1)))})

LowerChars == {CharAt(LowerCase, k) : k \in 1..Len(LowerCase)}

\* str.isupper(): a cased character, and no lower-case one
IsUpper(s) ==
    /\ \E k \in 1..Len(s) : CharAt(s, k) \in UpperChars
    /\ \A k \in 1..Len(s) : CharAt(s, k) \notin LowerChars

skip_phrases ==
    {"skills", "technical skills", "competencies", "technologies", "expertise",
     "proficient in", "soft skills", "hard skills", "core competencies",
     "course", "courses", "training", "certifications", "certificate",
     "education", "experience", "work history", "contact", "profile"}

\* the class [\d\s\-\(\)]
IsPhoneChar(c) == c \in DigitChars \/ IsSpace(c) \/ c = "-" \/ c = "(" \/ c = ")"

AllPhoneChars(s, from) == \A k \in from..Len(s) : IsPhoneChar(CharAt(s, k))

\* phone_pattern ^\+?[\d\s\-\(\)]{7,}$
phone_pattern(s) ==
    \/ Len(s) >= 7 /\ AllPhoneChars(s, 1)
    \/ Len(s) >= 8 /\ CharAt(s, 1) = "+" /\ AllPhoneChars(s, 2)

\* the month names of date_pattern
skill_month_names ==
    {"jan", "feb", "mar", "apr", "may", "jun", "jul", "aug", "sep", "oct", "nov", "dec",
     "january", "february", "march", "april", "june", "july", "august", "september",
     "october", "november", "december"}

\* (month)\s*\d{4} from position p of the lower-cased skill
MonthYearAt(s, p) ==
    \E m \in skill_month_names : HasAt(s, p, m) /\ IsYearAt(s, SkipSpaces(s, p + Len(m)))

\* date_pattern ^\(?\s*(month)\s*\d{4}, re.IGNORECASE, on the lower-cased skill
skill_date_pattern(s) ==
    \/ MonthYearAt(s, SkipSpaces(s, 1))
    \/ StartsWith(s, "(") /\ MonthYearAt(s, SkipSpaces(s, 2))

\* date_range_pattern \d{4}\s*-\s*(?:\d{4}|present|current) anywhere in the lower-cased skill
date_range_pattern(s) ==
    \E p \in 1..Len(s) :
        /\ IsYearAt(s, p)
        /\ HasAt(s, SkipSpaces(s, p + 4), "-")
        /\ \/ IsYearAt(s, SkipSpaces(s, SkipSpaces(s, p + 4) + 1))
           \/ HasAt(s, SkipSpaces(s, SkipSpaces(s, p + 4) + 1), "present")
           \/ HasAt(s, SkipSpaces(s, SkipSpaces(s, p + 4) + 1), "current")

\* \d{3,4} at position p
ThreeDigitsAt(s, p) == p + 2 <= Len(s) /\ \A k \in p..(p + 2) : CharAt(s, k) \in DigitChars

\* course_code_pattern ^[A-Z]{2,4}[-\s]?\d{3,4}, re.IGNORECASE, on the lower-cased skill
course_code_pattern(s) ==
    \E n \in 2..4 :
        /\ n <= Len(s)
        /\ \A k \in 1..n : CharAt(s, k) \in LowerChars
        /\ \/ ThreeDigitsAt(s, n + 1)
           \/ /\ n + 1 <= Len(s)
              /\ CharAt(s, n + 1) = "-" \/ IsSpace(CharAt(s, n + 1))
              /\ ThreeDigitsAt(s, n + 2)

\* the filters of lines 551-594 on a cleaned skill and its lower-case form
IsFilteredSkill(skill, skill_lower) ==
    \/ Len(skill) < 2
    \/ WordCount(skill) > 5
    \/ skill_lower \in skip_phrases
    \/ skill_lower \in section_boundaries
    \/ phone_pattern(skill)
    \/ Contains(skill, "@")
    \/ skill_date_pattern(skill_lower)
    \/ date_range_pattern(skill_lower)
    \/ course_code_pattern(skill_lower)
    \/ Contains(skill_lower, "introduction")
    \/ StartsWith(skill_lower, "intro")
    \/ IsUpper(skill) /\ WordCount(skill) = 1 /\ Len(skill) > 3
    \/ AllPhoneChars(skill, 1)

SkillEntry(skill) == [name |-> [value |-> skill, confidence |-> 90], matchedSkillId |-> None]

\* the pass without the `skill_lower in seen` test
KeepSkill_NoSeen(acc, skill, skill_lower) ==
    IF IsFilteredSkill(skill, skill_lower) THEN acc
    ELSE [seen |-> acc.seen \cup {skill_lower}, skills |-> Append(acc.skills, SkillEntry(skill))]

\* one pass of `for skill in raw_skills` on the cleaned skill
KeepSkill(acc, skill, skill_lower) ==
    IF IsFilteredSkill(skill, skill_lower) \/ skill_lower \in acc.seen THEN acc
    ELSE [seen |-> acc.seen \cup {skill_lower}, skills |-> Append(acc.skills, SkillEntry(skill))]

KeepCleaned(acc, skill) == KeepSkill(acc, skill, Lower(skill))

RECURSIVE SkillsLoop(_, _, _)
SkillsLoop(raw_skills, k, acc) ==
    IF k > Len(raw_skills) THEN acc.skills
    ELSE SkillsLoop(raw_skills, k + 1, KeepCleaned(acc, CleanSkill(raw_skills[k])))

\* raw_skills = [s.strip() for s in normalized.split(',')] after the bullet substitution
RawSkills(normalized) ==
    [k \in DOMAIN SplitBy(normalized, ",") |-> Strip(StripEntryBullet(SplitBy(normalized, ",")[k]))]

parse_skills(content) ==
    SkillsLoop(RawSkills(NewlinesToCommas(JoinLines(truncated_lines(SplitBy(content, "\n"))))),
               1, [seen |-> {}, skills |-> <<>>])

-----------------------------------------------------------------------------
(* Section headers: normalize_text, fuzzy_match and find_section_headers in *)
(* app/api/routes/ocr_extraction.py                                         *)

\* SECTION_PATTERNS, in dict order
SECTION_PATTERNS ==
    << [name |-> "work_experience",
        patterns |-> <<"work experience", "work history", "employment history",
                       "experience", "employment">>],
       [name |-> "education",
        patterns |-> <<"education", "academic background", "qualifications", "academic">>],
       [name |-> "skills",
        patterns |-> <<"skills", "technical skills", "competencies", "technologies",
                       "expertise">>] >>

\* ' '.join(s.split()) on a lower-cased s: whitespace runs become one space,
\* leading and trailing whitespace goes
RECURSIVE CollapseSpaces(_)
CollapseSpaces(s) ==
    IF Len(s) = 0 THEN s
    ELSE IF ~IsSpace(CharAt(s, 1)) THEN CharAt(s, 1) \o CollapseSpaces(SubSeq(s, 2, Len(s)))
    ELSE IF SkipSpaces(s, 1) > Len(s) THEN ""
    ELSE " " \o CollapseSpaces(SubSeq(s, SkipSpaces(s, 1), Len(s)))

normalize_text(s) == CollapseSpaces(Strip(Lower(s)))

\* s.replace(' ', '')
RECURSIVE RemoveSpaces(_)
RemoveSpaces(s) ==
    IF Len(s) = 0 THEN s
    ELSE (IF CharAt(s, 1) = " " THEN "" ELSE CharAt(s, 1)) \o RemoveSpaces(SubSeq(s, 2, Len(s)))

\* the length of the common run of a from i and b from j, within a[..ahi] and b[..bhi]
RECURSIVE CommonRun(_, _, _, _, _, _)
CommonRun(a, i, ahi, b, j, bhi) ==
    IF i <= ahi /\ j <= bhi /\ CharAt(a, i) = CharAt(b, j)
    THEN 1 + CommonRun(a, i + 1, ahi, b, j + 1, bhi)
    ELSE 0

MaxOf(S) == IF S = {} THEN 0 ELSE CHOOSE m \in S : \A o \in S : o <= m

\* the size of the longest matching block of a[alo..ahi] and b[blo..bhi]
LongestSize(a, alo, ahi, b, blo, bhi) ==
    MaxOf({CommonRun(a, i, ahi, b, j, bhi) : i \in alo..ahi, j \in blo..bhi})

\* SequenceMatcher.find_longest_match: of the blocks of the largest size the
\* one that starts earliest in a and, of those, earliest in b
BlockOfSize(a, alo, ahi, b, blo, bhi, size) ==
    CHOOSE m \in {<<i, j>> \in (alo..ahi) \X (blo..bhi) : CommonRun(a, i, ahi, b, j, bhi) = size} :
        \A i \in alo..ahi, j \in blo..bhi :
            CommonRun(a, i, ahi, b, j, bhi) = size
                => (m[1] < i \/ (m[1] = i /\ m[2] <= j))

\* the sum of the sizes of SequenceMatcher.get_matching_blocks
RECURSIVE MatchingCount(_, _, _, _, _, _)
RECURSIVE MatchingAround(_, _, _, _, _, _, _, _)
MatchingCount(a, alo, ahi, b, blo, bhi) ==
    IF alo > ahi \/ blo > bhi \/ LongestSize(a, alo, ahi, b, blo, bhi) = 0 THEN 0
    ELSE MatchingAround(a, alo, ahi, b, blo, bhi, LongestSize(a, alo, ahi, b, blo, bhi),
                        BlockOfSize(a, alo, ahi, b, blo, bhi,
                                    LongestSize(a, alo, ahi, b, blo, bhi)))

MatchingAround(a, alo, ahi, b, blo, bhi, size, block) ==
    size + MatchingCount(a, alo, block[1] - 1, b, blo, block[2] - 1)
         + MatchingCount(a, block[1] + size, ahi, b, block[2] + size, bhi)

\* SequenceMatcher(None, a, b).ratio() >= threshold, threshold in hundredths
RatioAtLeast(a, b, threshold) ==
    IF Len(a) + Len(b) = 0 THEN TRUE
    ELSE 200 * MatchingCount(a, 1, Len(a), b, 1, Len(b)) >= threshold * (Len(a) + Len(b))

degree_prefixes ==
    {"bachelor", "master", "doctor", "associate", "diploma", "certificate", "b.s.", "m.s.", "ph.d."}

\* the degree-prefix test of fuzzy_match, lines 161-164
HasDegreePrefix_Never(text_norm) == FALSE

HasDegreePrefix(text_norm) == StartsWithAny(text_norm, degree_prefixes)

\* the tests of fuzzy_match that apply to section headers only, lines 157-169
RejectedAsHeader(text_norm, pattern_norm) ==
    \/ Len(text_norm) > Len(pattern_norm) * 3
    \/ HasDegreePrefix(text_norm)
    \/ /\ Contains(text_norm, pattern_norm)
       /\ ~StartsWith(text_norm, SubSeq(pattern_norm, 1, IF Len(pattern_norm) < 4 THEN Len(pattern_norm) ELSE 4))

\* fuzzy_match on normalised text and pattern; threshold in hundredths
FuzzyNormalized(text_norm, pattern_norm, threshold, is_section_header) ==
    IF is_section_header /\ RejectedAsHeader(text_norm, pattern_norm) THEN FALSE
    ELSE IF Contains(text_norm, pattern_norm)
    THEN ~(is_section_header /\ 10 * Len(pattern_norm) <= 6 * Len(text_norm))
    ELSE IF Contains(RemoveSpaces(text_norm), RemoveSpaces(pattern_norm)) THEN TRUE
    ELSE RatioAtLeast(text_norm, pattern_norm, threshold)

fuzzy_match(content, pattern, threshold, is_section_header) ==
    FuzzyNormalized(normalize_text(content), normalize_text(pattern), threshold, is_section_header)

\* the section whose pattern the stripped line matches first, "" when none does
HeaderOf(line_stripped) ==
    IF \E s \in DOMAIN SECTION_PATTERNS : \E p \in DOMAIN SECTION_PATTERNS[s].patterns :
           fuzzy_match(line_stripped, SECTION_PATTERNS[s].patterns[p], 75, TRUE)
    THEN SECTION_PATTERNS[CHOOSE s \in DOMAIN SECTION_PATTERNS :
             /\ \E p \in DOMAIN SECTION_PATTERNS[s].patterns :
                    fuzzy_match(line_stripped, SECTION_PATTERNS[s].patterns[p], 75, TRUE)
             /\ \A o \in 1..(s - 1) : \A p \in DOMAIN SECTION_PATTERNS[o].patterns :
                    ~fuzzy_match(line_stripped, SECTION_PATTERNS[o].patterns[p], 75, TRUE)].name
    ELSE ""

\* sum(len(l) + 1 for l in lines[:n])
RECURSIVE OffsetAfter(_, _)
OffsetAfter(ls, n) == IF n = 0 THEN 0 ELSE Len(ls[n]) + 1 + OffsetAfter(ls, n - 1)

\* sections[name] = (start, end): a dict as a set of records, one per name
SetSection(sections, name, start, end) ==
    {s \in sections : s.name # name} \cup {[name |-> name, start |-> start, end |-> end]}

\* the header found at line i: the open section is closed at the start of
\* line i and the new section starts after line i
OpenSection(ls, i, acc, name) ==
    [sections |-> IF acc.current_section # ""
                  THEN SetSection(acc.sections, acc.current_section, acc.section_start,
                                  OffsetAfter(ls, i - 1))
                  ELSE acc.sections,
     current_section |-> name,
     section_start |-> OffsetAfter(ls, i)]

\* one pass of `for i, line in enumerate(lines)` given the header of the line
SectionFound(ls, i, acc, name) == IF name = "" THEN acc ELSE OpenSection(ls, i, acc, name)

SectionStep(ls, i, acc) ==
    IF Strip(ls[i]) = "" THEN acc ELSE SectionFound(ls, i, acc, HeaderOf(Strip(ls[i])))

NoSections == [sections |-> {}, current_section |-> "", section_start |-> 0]

\* the last section is closed at len(text)
CloseLast(acc, length) ==
    IF acc.current_section # ""
    THEN SetSection(acc.sections, acc.current_section, acc.section_start, length)
    ELSE acc.sections

RECURSIVE SectionLoop(_, _, _)
SectionLoop(ls, i, acc) ==
    IF i > Len(ls) THEN acc ELSE SectionLoop(ls, i + 1, SectionStep(ls, i, acc))

find_section_headers(content) ==
    CloseLast(SectionLoop(SplitBy(content, "\n"), 1, NoSections), Len(content))

-----------------------------------------------------------------------------
(* parse_work_history as one function, and extract_from_columns             *)

\* the inner loop of parse_work_history: the index where it stops and the
\* responsibility lines collected
RECURSIVE CollectResponsibilities(_, _, _)
CollectResponsibilities(ls, j, collected) ==
    IF j > Len(ls) THEN [j |-> j, collected |-> collected]
    ELSE IF IsNextJob(ls[j]) THEN [j |-> j, collected |-> collected]
    ELSE CollectResponsibilities(ls, j + 1,
                                 IF IsCollected(ls[j], collected)
                                 THEN Append(collected, ls[j]) ELSE collected)

\* the outer loop of parse_work_history; after a job i = j
RECURSIVE WorkLoop(_, _, _)
RECURSIVE JobFrom(_, _, _, _)
WorkLoop(ls, i, job_list) ==
    IF i > Len(ls) THEN job_list
    ELSE IF date_search(ls[i]) = None THEN WorkLoop(ls, i + 1, job_list)
    ELSE JobFrom(ls, i, CollectResponsibilities(ls, i + 1, <<>>), job_list)

JobFrom(ls, i, inner, job_list) ==
    WorkLoop(ls, inner.j,
             Append(job_list, JobRecord(JobHeader(ls, i), date_search(ls[i])[1], inner.collected)))

parse_work_history(content) == WorkLoop(SplitText(content), 1, <<>>)

\* s[start:end] for 0 <= start
Slice(s, start, end) == SubSeq(s, start + 1, IF end < Len(s) THEN end ELSE Len(s))

HasSection(sections, name) == \E s \in sections : s.name = name

\* column[start:end] for start, end = sections[name]
SectionText(column, sections, name) ==
    Slice(column, (CHOOSE s \in sections : s.name = name).start,
                  (CHOOSE s \in sections : s.name = name).end)

\* the entries whose lower-cased name is not the name of an earlier entry
RECURSIVE unique_skills(_, _, _)
unique_skills(all_skills, k, acc) ==
    IF k > Len(all_skills) THEN acc.skills
    ELSE unique_skills(all_skills, k + 1,
                       IF Lower(all_skills[k].name.value) \in acc.seen THEN acc
                       ELSE [seen |-> acc.seen \cup {Lower(all_skills[k].name.value)},
                             skills |-> Append(acc.skills, all_skills[k])])

\* the education of the left column, else that of the right column
ColumnsEducation(left_education, right_text, right_sections) ==
    IF Len(left_education) > 0 THEN left_education
    ELSE IF HasSection(right_sections, "education")
    THEN parse_education(SectionText(right_text, right_sections, "education"))
    ELSE <<>>

\* extract_from_columns given the section headers of the two columns
ExtractFromSections(left_text, right_text, left_sections, right_sections) ==
    [education |->
         ColumnsEducation(IF HasSection(left_sections, "education")
                          THEN parse_education(SectionText(left_text, left_sections, "education"))
                          ELSE <<>>,
                          right_text, right_sections),
     workHistory |->
         IF HasSection(right_sections, "work_experience")
         THEN parse_work_history(SectionText(right_text, right_sections, "work_experience"))
         ELSE <<>>,
     skills |->
         unique_skills((IF HasSection(left_sections, "skills")
                        THEN parse_skills(SectionText(left_text, left_sections, "skills"))
                        ELSE <<>>)
                       \o (IF HasSection(right_sections, "skills")
                           THEN parse_skills(SectionText(right_text, right_sections, "skills"))
                           ELSE <<>>),
                       1, [seen |-> {}, skills |-> <<>>])]

extract_from_columns(left_text, right_text) ==
    ExtractFromSections(left_text, right_text,
                        find_section_headers(left_text), find_section_headers(right_text))

-----------------------------------------------------------------------------
(* separate_columns in app/api/routes/ocr_extraction.py. An OCR line is a  *)
(* record [text, bbox]; bbox is [form, coords]: form "absent" when the     *)
(* dict has no 'bbox' key, "flat" for [x1, y1, x2, y2] and "nested" for     *)
(* [[x1, y1], ...], where coords is the first point.                        *)

default_column_threshold == 500

\* line.get('bbox', []) is falsy
IsEmptyBbox(bbox) == bbox.form = "absent" \/ (bbox.form = "flat" /\ bbox.coords = <<>>)

\* bbox[0][0] or bbox[0], 0 on IndexError
XCoord(bbox) == IF Len(bbox.coords) >= 1 THEN bbox.coords[1] ELSE 0

\* bbox[0][1] or bbox[1], 0 on IndexError
YCoord(bbox) == IF Len(bbox.coords) >= 2 THEN bbox.coords[2] ELSE 0

\* the (y_coord, text) pairs appended to left_lines (left = TRUE) or to
\* right_lines, in input order
RECURSIVE ColumnPairs(_, _, _)
ColumnPairs(ocr, column_threshold, left) ==
    IF Len(ocr) = 0 THEN <<>>
    ELSE IF IsEmptyBbox(ocr[1].bbox) \/ ocr[1].text = ""
    THEN ColumnPairs(Tail(ocr), column_threshold, left)
    ELSE IF (XCoord(ocr[1].bbox) < column_threshold) = left
    THEN <<[y |-> YCoord(ocr[1].bbox), text |-> ocr[1].text]>>
         \o ColumnPairs(Tail(ocr), column_threshold, left)
    ELSE ColumnPairs(Tail(ocr), column_threshold, left)

\* list.sort(key=lambda x: x[0]): stable, ascending in y
RECURSIVE InsertByY(_, _)
InsertByY(sorted, pair) ==
    IF Len(sorted) = 0 THEN <<pair>>
    ELSE IF sorted[Len(sorted)].y <= pair.y THEN Append(sorted, pair)
    ELSE Append(InsertByY(SubSeq(sorted, 1, Len(sorted) - 1), pair), sorted[Len(sorted)])

RECURSIVE SortByY(_)
SortByY(pairs) ==
    IF Len(pairs) = 0 THEN <<>>
    ELSE InsertByY(SortByY(SubSeq(pairs, 1, Len(pairs) - 1)), pairs[Len(pairs)])

PairTexts(pairs) == [k \in DOMAIN pairs |-> pairs[k].text]

ColumnText(ocr, column_threshold, left) ==
    JoinLines(PairTexts(SortByY(ColumnPairs(ocr, column_threshold, left))))

separate_columns(ocr, column_threshold) ==
    IF Len(ocr) = 0 THEN <<"", "">>
    ELSE <<ColumnText(ocr, column_threshold, TRUE), ColumnText(ocr, column_threshold, FALSE)>>

-----------------------------------------------------------------------------
(* extract_tier1_personal_info, extract_tier2_professional and the routes   *)
(* POST /api/ocr/extract-structured (app/api/routes/ocr_extraction.py) and  *)
(* POST /api/ocr/process (app/api/routes/ocr.py). The tier-1 fields are     *)
(* carried by name and confidence.                                          *)

LetterChars == LowerChars \cup UpperChars

\* lines[:n]
FirstLines(ls, n) == SubSeq(ls, 1, IF Len(ls) < n THEN Len(ls) ELSE n)

\* the first of lines[:5] that holds two words or more gives the name
HasNameLine(content) ==
    \E k \in DOMAIN FirstLines(SplitBy(Strip(content), "\n"), 5) :
        WordCount(SplitBy(Strip(content), "\n")[k]) >= 2

EmailLocalChars == LetterChars \cup DigitChars \cup {".", "_", "%", "+", "-"}
EmailDomainChars == LetterChars \cup DigitChars \cup {".", "-"}

\* [a-zA-Z0-9._%+-]+@[a-zA-Z0-9.-]+\.[a-zA-Z]{2,} with the @ at position a
EmailAround(s, a) ==
    /\ CharAt(s, a) = "@"
    /\ a > 1
    /\ CharAt(s, a - 1) \in EmailLocalChars
    /\ \E q \in (a + 2)..(Len(s) - 2) :
           /\ CharAt(s, q) = "."
           /\ \A k \in (a + 1)..(q - 1) : CharAt(s, k) \in EmailDomainChars
           /\ CharAt(s, q + 1) \in LetterChars
           /\ CharAt(s, q + 2) \in LetterChars

email_search(s) == \E a \in 1..Len(s) : EmailAround(s, a)

\* the positions after an optional character of chars, from the positions P
OptionalChar(s, P, chars) == P \cup {p + 1 : p \in {q \in P : q <= Len(s) /\ CharAt(s, q) \in chars}}

\* the positions after \d{lo,hi}, from the positions P
DigitRun(s, P, lo, hi) ==
    UNION {{p + n : n \in {m \in lo..hi : /\ p + m - 1 <= Len(s)
                                          /\ \A k \in p..(p + m - 1) : CharAt(s, k) \in DigitChars}}
           : p \in P}

PhoneSeparators == {"-", ".", " ", "\t", "\n"}

\* the positions after (?:[\+]?[1-9]\d{0,2}[-.\s]?)? from position p
AfterCountryCode(s, p) ==
    {p} \cup OptionalChar(s, DigitRun(s, {q + 1 : q \in {o \in OptionalChar(s, {p}, {"+"}) :
                                                        /\ o <= Len(s)
                                                        /\ CharAt(s, o) \in DigitChars \ {"0"}}},
                                      0, 2),
                          PhoneSeparators)

\* \(?\d{2,4}\)?[-.\s]?\d{2,4}[-.\s]?\d{2,6} from the positions P
AfterNumber(s, P) ==
    DigitRun(s, OptionalChar(s, DigitRun(s, OptionalChar(s, OptionalChar(s,
        DigitRun(s, OptionalChar(s, P, {"("}), 2, 4), {")"}), PhoneSeparators), 2, 4),
        PhoneSeparators), 2, 6)

phone_search(s) == \E p \in 1..Len(s) : AfterNumber(s, AfterCountryCode(s, p)) # {}

location_labels == {"location", "address", "city", "based in"}

tech_words ==
    {"selenium", "gauge", "cypress", "python", "javascript", "react", "angular",
     "java", "nodejs", "docker", "kubernetes", "jenkins", "git", "jira", "postman",
     "appium", "playwright", "testng", "junit", "maven", "gradle", "spring"}

LocationGroupChars == LetterChars \cup {" ", "\t", "\n", ","}

\* the lazy group ([A-Za-z\s,]+?)(?:\n|$) from position e: its length, 0 when
\* it does not match
LabelGroupLength(h, e) ==
    IF \E n \in 1..(Len(h) - e + 1) :
           /\ \A k \in e..(e + n - 1) : CharAt(h, k) \in LocationGroupChars
           /\ (e + n > Len(h) \/ CharAt(h, e + n) = "\n")
    THEN CHOOSE n \in 1..(Len(h) - e + 1) :
           /\ \A k \in e..(e + n - 1) : CharAt(h, k) \in LocationGroupChars
           /\ (e + n > Len(h) \/ CharAt(h, e + n) = "\n")
           /\ \A m \in 1..(n - 1) :
                  ~(/\ \A k \in e..(e + m - 1) : CharAt(h, k) \in LocationGroupChars
                    /\ (e + m > Len(h) \/ CharAt(h, e + m) = "\n"))
    ELSE 0

\* the lengths r >= 1 of [:\s]+ from position q after which the group matches
LabelRuns(h, q) ==
    {r \in 1..(Len(h) - q + 1) :
        /\ \A k \in q..(q + r - 1) : CharAt(h, k) = ":" \/ IsSpace(CharAt(h, k))
        /\ LabelGroupLength(h, q + r) > 0}

\* the positions q just after a label at which the labelled pattern matches
LabelEnds(h) ==
    {q \in 1..(Len(h) + 1) :
        /\ \E label \in location_labels : HasAt(Lower(h), q - Len(label), label)
        /\ LabelRuns(h, q) # {}}

\* group(1) of the leftmost match, [:\s]+ being greedy
LabelGroupFrom(h, q, r) == SubSeq(h, q + r, q + r + LabelGroupLength(h, q + r) - 1)

LabelGroupAt(h, q) == LabelGroupFrom(h, q, MaxOf(LabelRuns(h, q)))

labeled_location(h) ==
    IF LabelEnds(h) = {} THEN None
    ELSE Some(LabelGroupAt(h, CHOOSE q \in LabelEnds(h) : \A o \in LabelEnds(h) : q <= o))

country_names ==
    {"Turkey", "Germany", "USA", "UK", "France", "Spain", "Italy", "Netherlands", "Belgium",
     "Switzerland", "Austria", "Canada", "Australia", "India", "China", "Japan"}

\* the end of the lower-case run [a-z]+ that starts at position p, 0 without one
RECURSIVE LowerRunEnd(_, _)
LowerRunEnd(s, p) ==
    IF p <= Len(s) /\ CharAt(s, p) \in LowerChars
    THEN IF LowerRunEnd(s, p + 1) = 0 THEN p ELSE LowerRunEnd(s, p + 1)
    ELSE 0

\* [A-Z][a-z]+ at position p: the position after it, 0 when it does not match
CapitalisedEnd(s, p) ==
    IF p >= 1 /\ p <= Len(s) /\ CharAt(s, p) \in UpperChars /\ LowerRunEnd(s, p + 1) > 0
    THEN LowerRunEnd(s, p + 1) + 1 ELSE 0

\* the positions of the comma after [A-Z][a-z]+(?:\s+[A-Z][a-z]+)? from p
CityCommas(s, p) ==
    {c \in 1..Len(s) :
        /\ CharAt(s, c) = ","
        /\ CapitalisedEnd(s, p) > 0
        /\ \/ c = CapitalisedEnd(s, p)
           \/ /\ SkipSpaces(s, CapitalisedEnd(s, p)) > CapitalisedEnd(s, p)
              /\ c = CapitalisedEnd(s, SkipSpaces(s, CapitalisedEnd(s, p)))}

\* (Turkey|...|[A-Z]{2})\b at position p: the length matched, 0 when none
CountryLength(s, p) ==
    IF \E name \in country_names : HasAt(s, p, name) /\ ~IsWordAt(s, p + Len(name))
    THEN Len(CHOOSE name \in country_names : HasAt(s, p, name) /\ ~IsWordAt(s, p + Len(name)))
    ELSE IF /\ p + 1 <= Len(s)
            /\ CharAt(s, p) \in UpperChars
            /\ CharAt(s, p + 1) \in UpperChars
            /\ ~IsWordAt(s, p + 2)
    THEN 2 ELSE 0

\* the end of the city pattern matched from position p, 0 when it does not match
CityEndFrom(s, commas) ==
    IF \E c \in commas : CountryLength(s, SkipSpaces(s, c + 1)) > 0
    THEN (CHOOSE c \in commas : CountryLength(s, SkipSpaces(s, c + 1)) > 0
              /\ \A o \in commas : CountryLength(s, SkipSpaces(s, o + 1)) > 0 => c >= o)
    ELSE 0

CityEnd(s, p) ==
    IF CityEndFrom(s, CityCommas(s, p)) = 0 THEN 0
    ELSE SkipSpaces(s, CityEndFrom(s, CityCommas(s, p)) + 1)
         + CountryLength(s, SkipSpaces(s, CityEndFrom(s, CityCommas(s, p)) + 1)) - 1

\* city_pattern.group() of the leftmost match, None without a match
city_pattern(h) ==
    IF \E p \in 1..Len(h) : CityEnd(h, p) > 0
    THEN Some(SubSeq(h, CHOOSE p \in 1..Len(h) : CityEnd(h, p) > 0
                                   /\ \A o \in 1..(p - 1) : CityEnd(h, o) = 0,
                     CityEnd(h, CHOOSE p \in 1..Len(h) : CityEnd(h, p) > 0
                                   /\ \A o \in 1..(p - 1) : CityEnd(h, o) = 0)))
    ELSE None

\* ',' replaced by ' '
RECURSIVE CommasToSpaces(_)
CommasToSpaces(s) ==
    IF Len(s) = 0 THEN s
    ELSE (IF CharAt(s, 1) = "," THEN " " ELSE CharAt(s, 1)) \o CommasToSpaces(SubSeq(s, 2, Len(s)))

\* set(w.lower() for w in potential_location.replace(',', ' ').split())
words_in_match(potential_location) ==
    {Lower(w) : w \in {SplitBy(CollapseSpaces(CommasToSpaces(potential_location)), " ")[k] :
                          k \in DOMAIN SplitBy(CollapseSpaces(CommasToSpaces(potential_location)), " ")}}

\* location_confidence, 0 when location_value stays falsy
LocationFrom(labeled, city) ==
    IF labeled # None THEN (IF Strip(labeled[1]) # "" THEN 90 ELSE 0)
    ELSE IF city # None /\ words_in_match(city[1]) \cap tech_words = {} THEN 85
    ELSE 0

\* header_lines = '\n'.join(lines[:15])
HeaderArea(content) == JoinLines(FirstLines(SplitBy(Strip(content), "\n"), 15))

location_confidence(header) == LocationFrom(labeled_location(header), city_pattern(header))

extract_tier1_personal_info(content) ==
    (IF HasNameLine(content)
     THEN {[field |-> "firstName", confidence |-> 98], [field |-> "lastName", confidence |-> 95]}
     ELSE {})
    \cup (IF email_search(content) THEN {[field |-> "email", confidence |-> 95]} ELSE {})
    \cup (IF phone_search(content) THEN {[field |-> "phone", confidence |-> 88]} ELSE {})
    \cup (IF location_confidence(HeaderArea(content)) > 0
          THEN {[field |-> "location", confidence |-> location_confidence(HeaderArea(content))]}
          ELSE {})


\* extract_tier2_professional on the sections found in the text
Tier2FromSections(content, sections) ==
    [workHistory |-> IF HasSection(sections, "work_experience")
                     THEN parse_work_history(SectionText(content, sections, "work_experience"))
                     ELSE <<>>,
     education |-> IF HasSection(sections, "education")
                   THEN parse_education(SectionText(content, sections, "education"))
                   ELSE <<>>,
     skills |-> IF HasSection(sections, "skills")
                THEN parse_skills(SectionText(content, sections, "skills"))
                ELSE <<>>]

extract_tier2_professional(content) == Tier2FromSections(content, find_section_headers(content))

\* the column-aware tier 2, replaced by that of the full text when it is empty
ColumnsOrFullText(content, columns_tier2) ==
    IF /\ columns_tier2.workHistory = <<>>
       /\ columns_tier2.education = <<>>
       /\ columns_tier2.skills = <<>>
    THEN extract_tier2_professional(content)
    ELSE columns_tier2

Tier2FromColumns(content, columns) == ColumnsOrFullText(content, extract_from_columns(columns[1], columns[2]))

\* tier 2 of extract_structured_data; ocr is request.lines, None when absent
StructuredTier2(content, ocr) ==
    IF ocr # None /\ ocr[1] # <<>>
    THEN Tier2FromColumns(content, separate_columns(ocr[1], default_column_threshold))
    ELSE extract_tier2_professional(content)

RECURSIVE SumConfidence(_)
SumConfidence(fields) ==
    IF fields = {} THEN 0
    ELSE (CHOOSE f \in fields : TRUE).confidence + SumConfidence(fields \ {CHOOSE f \in fields : TRUE})

\* what extract_structured_data raises or returns, given tier 1 and tier 2;
\* overall_confidence is carried as the sum and the number of confidences,
\* tier3 and raw_sections are not carried
StructuredOutcome(tier1_fields, tier2_data) ==
    IF tier1_fields = {}
    THEN [exception |-> "HTTPException", status_code |-> 422, body |-> None]
    ELSE [exception |-> "", status_code |-> 200,
          body |-> Some([overall_confidence |-> [sum |-> SumConfidence(tier1_fields),
                                                 len |-> Cardinality(tier1_fields)],
                         tier1 |-> tier1_fields,
                         tier2 |-> tier2_data])]

extract_structured_data(content, ocr) ==
    StructuredOutcome(extract_tier1_personal_info(content), StructuredTier2(content, ocr))

\* the response of POST /api/ocr/extract-structured
StructuredResponse(outcome) == [status |-> outcome.status_code, structured_data |-> outcome.body]

\* the try block of process_document once extract_text has returned: any
\* exception of the structured extraction that is not a ValueError is caught
\* by `except Exception` and answered with 500
ProcessedResponse(content, extract_structured, outcome) ==
    IF ~(extract_structured /\ content # "") THEN [status |-> 200, structured_data |-> None]
    ELSE IF outcome.exception # "" THEN [status |-> 500, structured_data |-> None]
    ELSE [status |-> 200, structured_data |-> outcome.body]

\* process_document; the request carries what the OCR processor does:
\* processor (available or not), supported (is_supported(file_type)),
\* base64_ok, and the exception or the text of extract_text
process_document(req) ==
    IF ~req.processor THEN [status |-> 503, structured_data |-> None]
    ELSE IF ~req.supported THEN [status |-> 400, structured_data |-> None]
    ELSE IF ~req.base64_ok THEN [status |-> 400, structured_data |-> None]
    ELSE IF req.ocr_exception = "ValueError" THEN [status |-> 400, structured_data |-> None]
    ELSE IF req.ocr_exception # "" THEN [status |-> 500, structured_data |-> None]
    ELSE ProcessedResponse(req.text, req.extract_structured,
                           extract_structured_data(req.text, None))

-----------------------------------------------------------------------------
(* CAPClient.get_candidate (app/clients/cap_client.py) under async_retry   *)
(* (app/utils/retry.py). Delays are in milliseconds. What the network does *)
(* with one request is an outcome: "200", "404", "500" (raise_for_status   *)
(* raises HTTPStatusError), "ConnectError" or "ReadTimeout" (raised by      *)
(* client.get).                                                             *)

max_attempts == 3
retry_delay == 1000
retry_backoff == 2
retry_max_delay == 60000

HttpOutcomes == {"200", "404", "500", "ConnectError", "ReadTimeout"}

\* the outcomes in which the request fails at transport level
TransportFailures == {"ConnectError", "ReadTimeout"}

\* except (httpx.HTTPError, httpx.TimeoutException): the exception classes
\* of the outcomes that are subclasses of one of the two
RetriedExceptions == {"HTTPStatusError", "ConnectError", "ReadTimeout"}

\* what _get_auth_token does to self._token: "cached" returns the token held,
\* "ok" fetches and stores one, "unconfigured" and "failed" return None
TokenOutcomes == {"cached", "unconfigured", "ok", "failed"}

TokenAfter(cached, token_outcome) == cached \/ token_outcome = "ok"

\* the exception raised inside the try block of get_candidate, "" when none
RaisedInTry(http_outcome) ==
    IF http_outcome = "500" THEN "HTTPStatusError"
    ELSE IF http_outcome \in TransportFailures THEN http_outcome
    ELSE ""

\* the body of get_candidate: both except clauses return None, so nothing
\* raised inside the try block leaves the function
get_candidate(url, candidate_id, http_outcome) ==
    IF url = "" THEN [exception |-> "", value |-> None, requested |-> FALSE]
    ELSE IF http_outcome = "404" THEN [exception |-> "", value |-> None, requested |-> TRUE]
    ELSE IF RaisedInTry(http_outcome) = "HTTPStatusError"
    THEN [exception |-> "", value |-> None, requested |-> TRUE]
    ELSE IF RaisedInTry(http_outcome) # ""
    THEN [exception |-> "", value |-> None, requested |-> TRUE]
    ELSE [exception |-> "", value |-> Some([id |-> candidate_id]), requested |-> TRUE]

NewCall(candidate_id) ==
    [candidate_id |-> candidate_id, attempt |-> 1, current_delay |-> retry_delay,
     requests |-> <<>>, sleeps |-> <<>>]

\* the call with the request of this attempt recorded
Requested(call, result, http_outcome) ==
    [call EXCEPT !.requests = IF result.requested THEN Append(@, http_outcome) ELSE @]

\* one pass of `for attempt in range(1, max_attempts + 1)` that caught an
\* exception and goes on: sleep(current_delay), then the delay grows
Retried(call) ==
    [call EXCEPT !.attempt = @ + 1,
                 !.sleeps = Append(@, call.current_delay),
                 !.current_delay = Min(@ * retry_backoff, retry_max_delay)]

\* the entry of a finished call: what went out, the sleeps, and what the
\* caller got
Finished(call, exception, value) ==
    [candidate_id |-> call.candidate_id, requests |-> call.requests, sleeps |-> call.sleeps,
     exception |-> exception, value |-> value]

-----------------------------------------------------------------------------
(* The assembled application (app/main.py) and TimeoutMiddleware            *)
(* (app/middleware/timeout.py). Time is in seconds.                         *)

\* the middleware added to app by app.add_middleware, in order of the calls
installed_middleware == <<"CORSMiddleware">>

\* TimeoutMiddleware.__init__: the defaults of timeout and exclude_paths
request_timeout == 120
exclude_paths == {"/health", "/health/live", "/health/ready"}

\* any(request.url.path.startswith(path) for path in self.exclude_paths)
IsExcludedPath(path) == \E prefix \in exclude_paths : StartsWith(path, prefix)

\* the request is dispatched through TimeoutMiddleware and wrapped in wait_for
UnderTimeout(stack, path) ==
    /\ \E k \in DOMAIN stack : stack[k] = "TimeoutMiddleware"
    /\ ~IsExcludedPath(path)

\* the request after its handler has run for `seconds` more: wait_for
\* abandons it at the deadline and dispatch raises HTTPException(504)
AfterSeconds(stack, req, seconds) ==
    IF req.status # 0 THEN req
    ELSE IF UnderTimeout(stack, req.path) /\ req.elapsed + seconds >= request_timeout
    THEN [req EXCEPT !.elapsed = request_timeout, !.status = 504]
    ELSE [req EXCEPT !.elapsed = @ + seconds]

-----------------------------------------------------------------------------
(* OCRProcessor (app/models/ocr.py): construction, switch_engine and        *)
(* get_engine_info, and GET /health/ready (app/api/routes/health.py). A     *)
(* processor is the record of the attributes __init__ assigns; a handle is  *)
(* TRUE when it is not None. What the installation does when an engine is   *)
(* initialised is an environment record: rapid and paddle are "ok",         *)
(* "ImportError" or "Exception", tesseract is TRUE when                     *)
(* get_tesseract_version() succeeds.                                        *)

InitResults == {"ok", "ImportError", "Exception"}

Installations == [rapid : InitResults, paddle : InitResults, tesseract : BOOLEAN]

NoProcessor ==
    [engine |-> "", _paddle_ocr |-> FALSE, _rapid_ocr |-> FALSE, _tesseract_available |-> FALSE]

\* _init_tesseract
init_tesseract(proc, env) == [proc EXCEPT !._tesseract_available = env.tesseract]

\* _init_rapidocr: both except clauses name tesseract and initialise it
init_rapidocr(proc, env) ==
    IF env.rapid = "ok" THEN [proc EXCEPT !._rapid_ocr = TRUE]
    ELSE init_tesseract([proc EXCEPT !.engine = "tesseract"], env)

\* _init_paddleocr
init_paddleocr(proc, env) ==
    IF env.paddle = "ok" THEN [proc EXCEPT !._paddle_ocr = TRUE]
    ELSE init_tesseract([proc EXCEPT !.engine = "tesseract"], env)

\* the engine selection at the end of __init__
InitSelected(proc, env) ==
    IF proc.engine = "rapidocr" THEN init_rapidocr(proc, env)
    ELSE IF proc.engine = "paddleocr" THEN init_paddleocr(proc, env)
    ELSE init_tesseract(proc, env)

\* OCRProcessor(engine=...), OCR_ENGINE not being set in the environment
OCRProcessor(engine, env) ==
    InitSelected([engine |-> IF engine = None \/ engine = Some("") THEN "rapidocr" ELSE engine[1],
                  _paddle_ocr |-> FALSE, _rapid_ocr |-> FALSE, _tesseract_available |-> FALSE],
                 env)

valid_engines == {"rapidocr", "paddleocr", "tesseract"}

\* the initialisation switch_engine runs before it assigns self.engine
SwitchInit(proc, engine, env) ==
    IF engine = "rapidocr" /\ ~proc._rapid_ocr THEN init_rapidocr(proc, env)
    ELSE IF engine = "paddleocr" /\ ~proc._paddle_ocr THEN init_paddleocr(proc, env)
    ELSE IF engine = "tesseract" /\ ~proc._tesseract_available THEN init_tesseract(proc, env)
    ELSE proc

\* switch_engine for a valid engine: self.engine = engine comes last
switch_engine(proc, engine, env) == [SwitchInit(proc, engine, env) EXCEPT !.engine = engine]

\* get_engine_info: the entries that depend on the engine state
get_engine_info(proc) ==
    [engine |-> proc.engine,
     supported_languages |-> IF proc.engine \in {"paddleocr", "rapidocr"}
                             THEN "PADDLE_LANG_MAP" ELSE "TESSERACT_LANG_MAP",
     rapid_available |-> proc._rapid_ocr,
     paddle_available |-> proc._paddle_ocr,
     tesseract_available |-> proc._tesseract_available]

\* the embedding model is loaded whenever the application serves: lifespan
\* re-raises when loading fails
embedding_model_loaded == TRUE

\* ocr is not None and ocr._ocr_available, inside try/except Exception: an
\* attribute the processor does not have raises AttributeError, which is
\* caught and leaves components["ocr"] False
OcrComponent(proc) ==
    IF "_ocr_available" \in DOMAIN proc THEN proc["_ocr_available"] ELSE FALSE

\* db is not None and db.pool is not None, then SELECT 1
DatabaseComponent(pool) == pool = "connected"

ReadinessComponents(proc, pool) ==
    [embedding_model |-> embedding_model_loaded,
     database |-> DatabaseComponent(pool),
     ocr |-> OcrComponent(proc)]

ReadinessStatus(components) ==
    IF components.embedding_model /\ components.database /\ components.ocr
    THEN "ready" ELSE "degraded"

readiness_check(proc, pool) ==
    [status |-> ReadinessStatus(ReadinessComponents(proc, pool)),
     components |-> ReadinessComponents(proc, pool)]

-----------------------------------------------------------------------------
(* embedding_service.py: bulk_generate_candidate_embeddings                 *)

\* a candidate dict is a function from the keys it has to Optional values
DictGet(dict, key, default) == IF key \in DOMAIN dict THEN dict[key] ELSE default

IsTruthyText(opt) == opt # None /\ opt[1] # ""

\* generate_candidate_embedding(candidate_id=candidate['candidate_id'],
\* cv_text=candidate.get('cv_text', ''), skills_text=..., experience_text=...,
\* store=True) as the loop body calls it: the exception it raises ("" when it
\* returns) and the table after it.  A cv_text of None with another text
\* present fails at "cv_text + (skills_text or '')"; a failed write is
\* swallowed by _store_candidate_embedding.
BulkCall(candidate, table, connected, encode_raises, execute_fails) ==
    IF "candidate_id" \notin DOMAIN candidate
    THEN [exception |-> "KeyError", table |-> table]
    ELSE LET cv_text == DictGet(candidate, "cv_text", Some(""))
             skills_text == DictGet(candidate, "skills_text", None)
             experience_text == DictGet(candidate, "experience_text", None)
             any_text == IsTruthyText(cv_text) \/ IsTruthyText(skills_text)
                             \/ IsTruthyText(experience_text)
         IN  IF any_text /\ encode_raises
             THEN [exception |-> "RuntimeError", table |-> table]
             ELSE IF ~any_text
             THEN [exception |-> "ValueError", table |-> table]
             ELSE IF cv_text = None
             THEN [exception |-> "TypeError", table |-> table]
             ELSE LET prepared == PrepareEmbedding(EmbedRequest(candidate.candidate_id[1],
                                      cv_text[1], skills_text, experience_text, TRUE))
                  IN  [exception |-> prepared.exception,
                       table |-> IF connected /\ ~execute_fails /\ prepared.exception = ""
                                 THEN _store_candidate_embedding(table, prepared.row[1])
                                 ELSE table]

\* the loop body with a failure left out of the summary
BulkStep_UncountedFailure(summary, candidate, exception) ==
    IF exception = ""
    THEN [summary EXCEPT !.processed = @ + 1]
    ELSE summary

\* one iteration of "for candidate in candidates": the try and its except
BulkStep(summary, candidate, exception) ==
    IF exception = ""
    THEN [summary EXCEPT !.processed = @ + 1]
    ELSE [summary EXCEPT
              !.failed = @ + 1,
              !.errors = Append(@, [candidate_id |-> DictGet(candidate, "candidate_id", None),
                                    error |-> exception])]

-----------------------------------------------------------------------------
(* models/ocr.py: _ocr_with_paddle and its temporary file                   *)

ImageKinds == {"pil", "ndarray", "other"}

\* tempfile.NamedTemporaryFile(suffix='.png', delete=False): a name no file
\* created before has had
NewTempPath(made) == made + 1

\* the call on entering "with tempfile.NamedTemporaryFile(...) as tmp";
\* Image.fromarray runs before it for a numpy array and may raise
PaddleEntered(image, fromarray_raises, made) ==
    IF image = "ndarray" /\ fromarray_raises
    THEN [image |-> image, pc |-> "raised", temp_path |-> None, exception |-> "fromarray"]
    ELSE [image |-> image, pc |-> "with", temp_path |-> Some(NewTempPath(made)),
          exception |-> ""]

\* image.save(tmp.name) inside the with block: an exception leaves the with
\* block and the function, the try/finally below it is never entered; an
\* object that is neither a PIL image nor an array has no save
PaddleSaved(call, save_raises) ==
    IF save_raises \/ call.image = "other"
    THEN [call EXCEPT !.pc = "raised", !.exception = "save"]
    ELSE [call EXCEPT !.pc = "try"]

\* try: result = self._paddle_ocr.predict(temp_path)
PaddlePredicted(call, predict_raises) ==
    IF predict_raises
    THEN [call EXCEPT !.pc = "raised", !.exception = "predict"]
    ELSE [call EXCEPT !.pc = "returned"]

\* finally: if os.path.exists(temp_path): os.unlink(temp_path)
UnlinkIfExists(files, temp_path) == files \ {temp_path}

-----------------------------------------------------------------------------
(* utils/cache.py: EmbeddingCache                                           *)

\* hashlib.md5(text.encode('utf-8')).hexdigest() behind the prefix; the digest
\* is carried as the number _compute_hash gives, distinct for distinct texts
\* of the lengths used here
_hash_text(content, prefix) == <<prefix, _compute_hash(content)>>

CacheKey(content, is_query) == _hash_text(content, IF is_query THEN "q:" ELSE "d:")

CacheKeys(entries) == {entries[k].key : k \in DOMAIN entries}

KeyIndex(entries, k) == CHOOSE n \in DOMAIN entries : entries[n].key = k

DropKey(entries, k) == SelectSeq(entries, LAMBDA e : e.key # k)

\* OrderedDict.move_to_end(key)
move_to_end(entries, k) == Append(DropKey(entries, k), entries[KeyIndex(entries, k)])

\* self._cache[key] = value: a key the dict has keeps its place, a new key
\* goes to the end
SetItem(entries, k, value) ==
    IF k \in CacheKeys(entries)
    THEN [n \in DOMAIN entries |->
             IF entries[n].key = k THEN [key |-> k, embedding |-> value] ELSE entries[n]]
    ELSE Append(entries, [key |-> k, embedding |-> value])

\* while len(self._cache) >= self.maxsize: self._cache.popitem(last=False);
\* popitem on an empty dict raises KeyError
RECURSIVE EvictToCapacity(_, _, _)
EvictToCapacity(entries, maxsize, evicted) ==
    IF Len(entries) < maxsize
    THEN [entries |-> entries, evicted |-> evicted, exception |-> ""]
    ELSE IF entries = <<>>
    THEN [entries |-> entries, evicted |-> evicted, exception |-> "KeyError"]
    ELSE EvictToCapacity(Tail(entries), maxsize, Append(evicted, entries[1].key))

\* get without move_to_end: the dict keeps insertion order
get_WithoutMoveToEnd(entries, content, is_query) ==
    LET k == CacheKey(content, is_query)
    IN  IF k \in CacheKeys(entries)
        THEN [entries |-> entries, result |-> Some(entries[KeyIndex(entries, k)].embedding)]
        ELSE [entries |-> entries, result |-> None]

\* EmbeddingCache.get: the dict after the call and the value returned
\* (a copy of the cached array, None on a miss)
get(entries, content, is_query) ==
    LET k == CacheKey(content, is_query)
    IN  IF k \in CacheKeys(entries)
        THEN [entries |-> move_to_end(entries, k),
              result |-> Some(entries[KeyIndex(entries, k)].embedding)]
        ELSE [entries |-> entries, result |-> None]

\* EmbeddingCache.set
set(entries, maxsize, content, value, is_query) ==
    LET k == CacheKey(content, is_query)
        room == EvictToCapacity(entries, maxsize, <<>>)
    IN  IF room.exception # ""
        THEN [entries |-> room.entries, evicted |-> room.evicted, exception |-> room.exception]
        ELSE [entries |-> SetItem(room.entries, k, value), evicted |-> room.evicted,
              exception |-> ""]

\* EmbeddingCache.remove
remove(entries, content, is_query) ==
    LET k == CacheKey(content, is_query)
    IN  [entries |-> DropKey(entries, k), result |-> k \in CacheKeys(entries)]

\* the order of last use: a get hit and the insertion of a key make the key
\* the most recent one, a key that leaves the cache leaves the order, and
\* overwriting the value of a key the cache holds is neither
UsedLast(order, k) == Append(SelectSeq(order, LAMBDA u : u # k), k)

KeysOf(seq) == {seq[n] : n \in DOMAIN seq}

UseOrderAfterSet(order, before, evicted, k) ==
    LET remaining == SelectSeq(order, LAMBDA u : u \notin KeysOf(evicted))
    IN  IF k \in CacheKeys(before) \ KeysOf(evicted) THEN remaining ELSE Append(remaining, k)

-----------------------------------------------------------------------------
(* utils/retry.py: async_retry with any parameters. Delays are whole        *)
(* numbers of a time unit and backoff is a whole multiplier.                *)

\* wrapper on entry: current_delay = delay, last_exception = None
RetryStart(params) ==
    [attempt |-> 1, current_delay |-> params.delay, invocations |-> 0, sleeps |-> <<>>,
     pc |-> "loop", exception |-> ""]

\* one pass of "for attempt in range(1, max_attempts + 1)": the wrapped
\* function is awaited and returns ("ok"), raises one of `exceptions`
\* ("listed") or raises something else ("unlisted"), which no clause catches
RetryPass(params, run, outcome) ==
    LET invoked == [run EXCEPT !.invocations = @ + 1]
    IN  CASE outcome = "ok" -> [invoked EXCEPT !.pc = "returned"]
          [] outcome = "unlisted" -> [invoked EXCEPT !.pc = "raised", !.exception = "unlisted"]
          [] OTHER ->
                 IF run.attempt < params.max_attempts
                 THEN [invoked EXCEPT
                           !.attempt = @ + 1,
                           !.sleeps = Append(@, run.current_delay),
                           !.current_delay = Min(run.current_delay * params.backoff,
                                                 params.max_delay)]
                 ELSE [invoked EXCEPT !.pc = "raised", !.exception = "listed"]

-----------------------------------------------------------------------------
(* api/routes/scoring.py: set_scoring_criteria. Every db.execute acquires   *)
(* a connection and runs one statement in its own transaction               *)
(* (db/postgres.py: PostgresPool.execute).                                  *)

\* DELETE FROM scoring_criteria WHERE job_posting_id = $1
DeleteJobCriteria(table, job_posting_id) ==
    SelectSeq(table, LAMBDA row : row.job_posting_id # job_posting_id)

SameCriteriaKey(row, other) ==
    /\ row.job_posting_id = other.job_posting_id
    /\ row.criterion.criteria_type = other.criterion.criteria_type
    /\ row.criterion.criteria_value = other.criterion.criteria_value

\* INSERT INTO scoring_criteria ... ON CONFLICT (job_posting_id,
\* criteria_type, criteria_value) DO UPDATE SET ...
UpsertCriterion(table, row) ==
    IF \E n \in DOMAIN table : SameCriteriaKey(table[n], row)
    THEN [n \in DOMAIN table |-> IF SameCriteriaKey(table[n], row) THEN row ELSE table[n]]
    ELSE Append(table, row)

\* the request on entering the handler: 503 without a pool, else at the
\* DELETE when replace_existing, else at the first INSERT
CriteriaRequestReceived(request, pool) ==
    IF ~pool THEN [request |-> request, pc |-> "done", next |-> 1, status |-> 503]
    ELSE [request |-> request, pc |-> IF request.replace_existing THEN "delete" ELSE "insert",
          next |-> 1, status |-> 0]

\* after a statement of the handler: an exception of db.execute is answered
\* with 500, the last statement is followed by the 200 response
AfterStatement(handling, execute_fails, inserted) ==
    LET next == IF inserted THEN handling.next + 1 ELSE handling.next
    IN  IF execute_fails THEN [handling EXCEPT !.pc = "done", !.status = 500]
        ELSE IF next > Len(handling.request.criteria)
        THEN [handling EXCEPT !.pc = "done", !.next = next, !.status = 200]
        ELSE [handling EXCEPT !.pc = "insert", !.next = next]

-----------------------------------------------------------------------------
(* Specifications                                                           *)

ScoreIdle == candidate_data = PlaceholderCandidate /\ criteria = <<>> /\ scoring_result = None

MatchIdle ==
    /\ candidate_embeddings = <<>>
    /\ job_embeddings = <<>>
    /\ scoring_criteria = <<>>
    /\ response = NoResponse

StoreIdle == semantic_match_results = <<>> /\ last_stored = <<>> /\ stores = 0

EmbedIdle == db = TRUE /\ calls = <<>>

WorkIdle ==
    /\ text = ""
    /\ lines = <<>>
    /\ line_i = 1
    /\ line_j = 1
    /\ current_job = None
    /\ responsibilities = <<>>
    /\ jobs = <<>>
    /\ parser_state = "Idle"

EducationIdle == education_text = "" /\ education_entries = None

SkillsIdle ==
    /\ skills_section = ""
    /\ parsed_skills = None
    /\ left_column = ""
    /\ right_column = ""
    /\ tier2 = None

SectionsIdle ==
    /\ header_lines = <<>>
    /\ line_index = 1
    /\ header_state = NoSections
    /\ found_sections = None

SeparateIdle ==
    /\ ocr_lines = <<>>
    /\ separated = None

NoRequest ==
    [route |-> "", text |-> "", lines |-> None, processor |-> FALSE, supported |-> FALSE,
     base64_ok |-> FALSE, ocr_exception |-> "", extract_structured |-> FALSE]

ExtractIdle ==
    /\ http_request = NoRequest
    /\ http_response = None

CapIdle ==
    /\ base_url = ""
    /\ token_cached = FALSE
    /\ cap_call = None
    /\ cap_log = <<>>

AppIdle ==
    /\ inflight = <<>>

OcrIdle ==
    /\ ocr_processor = NoProcessor
    /\ db_pool = "none"
    /\ service_reply = None

BulkIdle ==
    /\ bulk_candidates = <<>>
    /\ bulk_next = 1
    /\ bulk_summary = [processed |-> 0, failed |-> 0, errors |-> <<>>]
    /\ bulk_attempted = <<>>
    /\ bulk_result = None

PaddleIdle ==
    /\ temp_files = {}
    /\ paddle_calls = <<>>

CacheIdle ==
    /\ cache_maxsize = 1
    /\ cache_entries = <<>>
    /\ cache_hits = 0
    /\ cache_misses = 0
    /\ cache_call = None
    /\ use_order = <<>>

RetryIdle ==
    /\ retry_params = [max_attempts |-> 1, delay |-> 0, backoff |-> 1, max_delay |-> 0]
    /\ retry_run = [attempt |-> 1, current_delay |-> 0, invocations |-> 0, sleeps |-> <<>>, pc |-> "idle", exception |-> ""]

CriteriaIdle ==
    /\ criteria_requests = <<>>
    /\ criteria_before = <<>>

(* calculate_score applied to every candidate of CandidatePool and every    *)
(* criteria list of at most MaxCriteria entries of CriteriaPool.            *)

InitScore ==
    /\ CriteriaIdle
    /\ RetryIdle
    /\ CacheIdle
    /\ PaddleIdle
    /\ BulkIdle
    /\ OcrIdle
    /\ AppIdle
    /\ CapIdle
    /\ ExtractIdle
    /\ SeparateIdle
    /\ SectionsIdle
    /\ SkillsIdle
    /\ EducationIdle
    /\ candidate_data \in CandidatePool
    /\ criteria \in SeqsUpTo(CriteriaPool, MaxCriteria)
    /\ scoring_result = None
    /\ MatchIdle
    /\ StoreIdle
    /\ EmbedIdle
    /\ WorkIdle

CalculateScore ==
    /\ scoring_result = None
    /\ scoring_result' = Some(calculate_score(candidate_data, criteria))
    /\ UNCHANGED <<candidate_data, criteria, matchVars, storeVars, embedVars, workVars, educationVars, skillsVars, sectionVars, separateVars, extractVars, capVars, appVars, ocrVars, bulkVars, paddleVars, cacheVars, retryVars, criteriaVars>>

NextScore == CalculateScore

SpecScore == InitScore /\ [][NextScore]_vars

(* One matching request against a populated store.                         *)

InitMatch ==
    /\ CriteriaIdle
    /\ RetryIdle
    /\ CacheIdle
    /\ PaddleIdle
    /\ BulkIdle
    /\ OcrIdle
    /\ AppIdle
    /\ CapIdle
    /\ ExtractIdle
    /\ SeparateIdle
    /\ SectionsIdle
    /\ SkillsIdle
    /\ EducationIdle
    /\ ScoreIdle
    /\ candidate_embeddings \in CandidateTables(MaxCandidates)
    /\ job_embeddings \in JobTables(MaxJobs)
    /\ scoring_criteria \in CriteriaTables
    /\ response = NoResponse
    /\ StoreIdle
    /\ EmbedIdle
    /\ WorkIdle

\* at most one of the store reads of a request fails; a failed read of the
\* job embedding or of the search ends the request before the later reads
FailingQueries == {"", "job_embeddings", "candidate_embeddings", "scoring_criteria"}

FindMatches ==
    /\ response = NoResponse
    /\ \E job_posting_id \in JobIds, min_score \in MinScores, limit \in Limits,
          include_breakdown, exclude_disqualified \in BOOLEAN, failing \in FailingQueries :
           \E job_embedding \in {_get_job_embedding(job_embeddings, job_posting_id,
                                                     failing = "job_embeddings")},
              crits \in {get_job_criteria(scoring_criteria, job_posting_id,
                                           failing = "scoring_criteria")} :
               LET request == [job_posting_id |-> job_posting_id, min_score |-> min_score,
                               limit |-> limit, include_breakdown |-> include_breakdown,
                               exclude_disqualified |-> exclude_disqualified]
                   search_limit == 2 * (IF Truthy(limit) THEN limit[1] ELSE default_match_limit)
                   searches == IF job_embedding = None THEN {<<>>}
                               ELSE _semantic_search(candidate_embeddings, job_embedding[1],
                                                     search_limit, failing = "candidate_embeddings")
               IN  \E semantic_results \in searches :
                       \E found \in {find_matches(job_posting_id, job_embedding, crits,
                                                    semantic_results, min_score, limit,
                                                    include_breakdown, exclude_disqualified)} :
                           response' = find_semantic_matches(request, found)
    /\ UNCHANGED <<candidate_embeddings, job_embeddings, scoring_criteria, scoreVars,
                   storeVars, embedVars, workVars, educationVars, skillsVars, sectionVars, separateVars, extractVars, capVars, appVars, ocrVars, bulkVars, paddleVars, cacheVars, retryVars, criteriaVars>>

SingleMatch ==
    /\ response = NoResponse
    /\ \E candidate_id \in CandidateIds, job_posting_id \in JobIds, failing \in FailingQueries :
           \E candidate_embedding \in {_get_candidate_embedding(candidate_embeddings, candidate_id,
                                                                 failing = "candidate_embeddings")},
              job_embedding \in {_get_job_embedding(job_embeddings, job_posting_id,
                                                     failing = "job_embeddings")},
              crits \in {get_job_criteria(scoring_criteria, job_posting_id,
                                           failing = "scoring_criteria")} :
               \E match \in {calculate_single_match(candidate_id, job_posting_id,
                                                      candidate_embedding, job_embedding, crits)} :
                   response' = single_match_route([candidate_id |-> candidate_id,
                                                   job_posting_id |-> job_posting_id], match)
    /\ UNCHANGED <<candidate_embeddings, job_embeddings, scoring_criteria, scoreVars,
                   storeVars, embedVars, workVars, educationVars, skillsVars, sectionVars, separateVars, extractVars, capVars, appVars, ocrVars, bulkVars, paddleVars, cacheVars, retryVars, criteriaVars>>

NextMatch == FindMatches \/ SingleMatch

SpecMatch == InitMatch /\ [][NextMatch]_vars

(* A sequence of POST /api/matching/store-result requests.                  *)

MaxStores == 3

\* a MatchResult as a client of the route sends it
StoredResult(candidate_id, job_posting_id, criteria_score, criteria_max_score) ==
    [candidate_id |-> candidate_id,
     job_posting_id |-> job_posting_id,
     cosine_similarity |-> 80,
     criteria_score |-> criteria_score,
     criteria_max_score |-> criteria_max_score,
     combined_score |->
         RoundHalfEven(CombinedScore(80, IF criteria_max_score > 0
                                         THEN (10000 * criteria_score) \div criteria_max_score
                                         ELSE 0), 10),
     rank |-> 1,
     score_breakdown |-> None,
     matched_criteria |-> <<>>,
     missing_criteria |-> <<>>]

ResultPool ==
    {StoredResult(c, 1, points[1], points[2]) :
         c \in CandidateIds, points \in {<<5, 10>>, <<10, 10>>, <<0, 0>>, <<5, 20>>}}

\* POST /api/matching/store-result
store_result_route(result, success) ==
    [op |-> "store-result",
     candidate_id |-> result.candidate_id,
     job_posting_id |-> result.job_posting_id,
     limit |-> None,
     status |-> IF success THEN 200 ELSE 500,
     matches |-> <<>>]

InitStore ==
    /\ CriteriaIdle
    /\ RetryIdle
    /\ CacheIdle
    /\ PaddleIdle
    /\ BulkIdle
    /\ OcrIdle
    /\ AppIdle
    /\ CapIdle
    /\ ExtractIdle
    /\ SeparateIdle
    /\ SectionsIdle
    /\ SkillsIdle
    /\ EducationIdle
    /\ ScoreIdle
    /\ MatchIdle
    /\ EmbedIdle
    /\ WorkIdle
    /\ semantic_match_results = <<>>
    /\ last_stored = [pair \in CandidateIds \X JobIds |-> None]
    /\ stores = 0

StoreMatchResult ==
    \E result \in ResultPool, execute_fails \in BOOLEAN :
        LET outcome == store_match_result(semantic_match_results, result, execute_fails)
        IN  /\ stores < MaxStores
            /\ stores' = stores + 1
            /\ semantic_match_results' = outcome.table
            /\ last_stored' =
                   IF outcome.success
                   THEN [last_stored EXCEPT
                             ![<<result.candidate_id, result.job_posting_id>>] = Some(result)]
                   ELSE last_stored
            /\ response' = store_result_route(result, outcome.success)
            /\ UNCHANGED <<candidate_embeddings, job_embeddings, scoring_criteria, scoreVars,
                           embedVars, workVars, educationVars, skillsVars, sectionVars, separateVars, extractVars, capVars, appVars, ocrVars, bulkVars, paddleVars, cacheVars, retryVars, criteriaVars>>

NextStore == StoreMatchResult

SpecStore == InitStore /\ [][NextStore]_vars

(* Concurrent generate_candidate_embedding calls: a call runs to its await  *)
(* of the store write in one step, and the write is a second step.          *)

MaxCalls == 3

EmbedRequests ==
    {EmbedRequest(c, parts[1], parts[2], parts[3], store) :
         c \in CandidateIds,
         parts \in {<<"ab", None, None>>, <<"a", Some("b"), None>>, <<"", None, None>>},
         store \in BOOLEAN}

InitEmbed ==
    /\ CriteriaIdle
    /\ RetryIdle
    /\ CacheIdle
    /\ PaddleIdle
    /\ BulkIdle
    /\ OcrIdle
    /\ AppIdle
    /\ CapIdle
    /\ ExtractIdle
    /\ SeparateIdle
    /\ SectionsIdle
    /\ SkillsIdle
    /\ EducationIdle
    /\ ScoreIdle
    /\ MatchIdle
    /\ StoreIdle
    /\ WorkIdle
    /\ db \in BOOLEAN
    /\ calls = <<>>

\* the dictionary generate_candidate_embedding returns
EmbeddingResponse(request, row, success) ==
    [embedding |-> row.combined_embedding,
     content_hash |-> row.cv_text_hash,
     stored |-> request.store /\ db,
     success |-> success]

GenerateCandidateEmbedding ==
    \E request \in EmbedRequests :
        LET prepared == PrepareEmbedding(request)
            call == IF prepared.exception # ""
                    THEN [request |-> request, pc |-> "raised", row |-> None, result |-> None]
                    ELSE IF request.store /\ db
                    THEN [request |-> request, pc |-> "storing", row |-> prepared.row,
                          result |-> None]
                    ELSE [request |-> request, pc |-> "returned", row |-> prepared.row,
                          result |-> Some(EmbeddingResponse(request, prepared.row[1], FALSE))]
        IN  /\ Len(calls) < MaxCalls
            /\ calls' = Append(calls, call)
            /\ UNCHANGED <<db, candidate_embeddings, job_embeddings, scoring_criteria,
                           response, scoreVars, storeVars, workVars, educationVars, skillsVars, sectionVars, separateVars, extractVars, capVars, appVars, ocrVars, bulkVars, paddleVars, cacheVars, retryVars, criteriaVars>>

StoreCandidateEmbedding ==
    \E k \in DOMAIN calls, execute_fails \in BOOLEAN :
        /\ calls[k].pc = "storing"
        /\ candidate_embeddings' =
               IF execute_fails THEN candidate_embeddings
               ELSE _store_candidate_embedding(candidate_embeddings, calls[k].row[1])
        /\ calls' = [calls EXCEPT
                         ![k].pc = "returned",
                         ![k].result = Some(EmbeddingResponse(calls[k].request, calls[k].row[1],
                                                              ~execute_fails))]
        /\ UNCHANGED <<db, job_embeddings, scoring_criteria, response, scoreVars, storeVars,
                       workVars, educationVars, skillsVars, sectionVars, separateVars, extractVars, capVars, appVars, ocrVars, bulkVars, paddleVars, cacheVars, retryVars, criteriaVars>>

NextEmbed == GenerateCandidateEmbedding \/ StoreCandidateEmbedding

SpecEmbed == InitEmbed /\ [][NextEmbed]_vars

(* parse_work_history on a section of at most MaxLines lines of LinePool,   *)
(* one loop iteration per step.                                            *)

InitWork ==
    /\ CriteriaIdle
    /\ RetryIdle
    /\ CacheIdle
    /\ PaddleIdle
    /\ BulkIdle
    /\ OcrIdle
    /\ AppIdle
    /\ CapIdle
    /\ ExtractIdle
    /\ SeparateIdle
    /\ SectionsIdle
    /\ SkillsIdle
    /\ EducationIdle
    /\ ScoreIdle
    /\ MatchIdle
    /\ StoreIdle
    /\ EmbedIdle
    /\ text \in {JoinLines(ls) : ls \in SeqsUpTo(LinePool, MaxLines)}
    /\ lines = <<>>
    /\ line_i = 1
    /\ line_j = 1
    /\ current_job = None
    /\ responsibilities = <<>>
    /\ jobs = <<>>
    /\ parser_state = "Start"

\* lines 238-242: split the text; no lines, no jobs
SplitSection ==
    /\ parser_state = "Start"
    /\ lines' = SplitText(text)
    /\ parser_state' = IF SplitText(text) = <<>> THEN "Returned" ELSE "SeekingAnchor"
    /\ UNCHANGED <<text, line_i, line_j, current_job, responsibilities, jobs,
                   scoreVars, matchVars, storeVars, embedVars, educationVars, skillsVars, sectionVars, separateVars, extractVars, capVars, appVars, ocrVars, bulkVars, paddleVars, cacheVars, retryVars, criteriaVars>>

\* outer loop, a line without the date pattern: i += 1
SkipLine ==
    /\ parser_state = "SeekingAnchor"
    /\ line_i <= Len(lines)
    /\ date_search(lines[line_i]) = None
    /\ line_i' = line_i + 1
    /\ UNCHANGED <<text, lines, line_j, current_job, responsibilities, jobs, parser_state,
                   scoreVars, matchVars, storeVars, embedVars, educationVars, skillsVars, sectionVars, separateVars, extractVars, capVars, appVars, ocrVars, bulkVars, paddleVars, cacheVars, retryVars, criteriaVars>>

\* outer loop, a line with the date pattern: title, company, dates; j = i + 1
FindAnchor ==
    /\ parser_state = "SeekingAnchor"
    /\ line_i <= Len(lines)
    /\ date_search(lines[line_i]) # None
    /\ current_job' = Some([header |-> JobHeader(lines, line_i),
                            dates |-> date_search(lines[line_i])[1]])
    /\ responsibilities' = <<>>
    /\ line_j' = line_i + 1
    /\ parser_state' = "CollectingResponsibilities"
    /\ UNCHANGED <<text, lines, line_i, jobs, scoreVars, matchVars, storeVars, embedVars, educationVars, skillsVars, sectionVars, separateVars, extractVars, capVars, appVars, ocrVars, bulkVars, paddleVars, cacheVars, retryVars, criteriaVars>>

\* inner loop, a line that is not the next job: collect it or pass it; j += 1
CollectLine ==
    /\ parser_state = "CollectingResponsibilities"
    /\ line_j <= Len(lines)
    /\ ~IsNextJob(lines[line_j])
    /\ responsibilities' = IF IsCollected(lines[line_j], responsibilities)
                           THEN Append(responsibilities, lines[line_j])
                           ELSE responsibilities
    /\ line_j' = line_j + 1
    /\ UNCHANGED <<text, lines, line_i, current_job, jobs, parser_state,
                   scoreVars, matchVars, storeVars, embedVars, educationVars, skillsVars, sectionVars, separateVars, extractVars, capVars, appVars, ocrVars, bulkVars, paddleVars, cacheVars, retryVars, criteriaVars>>

\* inner loop ends at the next job or at the last line: append the job; i = j
EmitJob ==
    /\ parser_state = "CollectingResponsibilities"
    /\ IF line_j > Len(lines) THEN TRUE ELSE IsNextJob(lines[line_j])
    /\ jobs' = Append(jobs, JobRecord(current_job[1].header, current_job[1].dates,
                                      responsibilities))
    /\ line_i' = line_j
    /\ parser_state' = "SeekingAnchor"
    /\ UNCHANGED <<text, lines, line_j, current_job, responsibilities,
                   scoreVars, matchVars, storeVars, embedVars, educationVars, skillsVars, sectionVars, separateVars, extractVars, capVars, appVars, ocrVars, bulkVars, paddleVars, cacheVars, retryVars, criteriaVars>>

\* outer loop ends: return jobs
ReturnJobs ==
    /\ parser_state = "SeekingAnchor"
    /\ line_i > Len(lines)
    /\ parser_state' = "Returned"
    /\ UNCHANGED <<text, lines, line_i, line_j, current_job, responsibilities, jobs,
                   scoreVars, matchVars, storeVars, embedVars, educationVars, skillsVars, sectionVars, separateVars, extractVars, capVars, appVars, ocrVars, bulkVars, paddleVars, cacheVars, retryVars, criteriaVars>>

NextWork == SplitSection \/ SkipLine \/ FindAnchor \/ CollectLine \/ EmitJob \/ ReturnJobs

SpecWork == InitWork /\ [][NextWork]_vars

(* parse_education applied to every text of at most MaxEducationLines lines *)
(* of EducationLinePool.                                                    *)

InitEducation ==
    /\ CriteriaIdle
    /\ RetryIdle
    /\ CacheIdle
    /\ PaddleIdle
    /\ BulkIdle
    /\ OcrIdle
    /\ AppIdle
    /\ CapIdle
    /\ ExtractIdle
    /\ SeparateIdle
    /\ SectionsIdle
    /\ SkillsIdle
    /\ ScoreIdle
    /\ MatchIdle
    /\ StoreIdle
    /\ EmbedIdle
    /\ WorkIdle
    /\ education_text \in {JoinLines(ls) : ls \in SeqsUpTo(EducationLinePool, MaxEducationLines)}
    /\ education_entries = None

ParseEducation ==
    /\ education_entries = None
    /\ education_entries' = Some(parse_education(education_text))
    /\ UNCHANGED <<education_text, scoreVars, matchVars, storeVars, embedVars, workVars, skillsVars, sectionVars, separateVars, extractVars, capVars, appVars, ocrVars, bulkVars, paddleVars, cacheVars, retryVars, criteriaVars>>

NextEducation == ParseEducation

SpecEducation == InitEducation /\ [][NextEducation]_vars

(* parse_skills applied to every text of at most MaxSkillLines lines of     *)
(* SkillLinePool, and extract_from_columns applied to every pair of         *)
(* ColumnTexts.                                                             *)

MaxSkillLines == 2

\* lines a skills section is made of
SkillLinePool ==
    {"REST-API", "- CI-CD", "REST-API, CI-CD", "CI-CD", "Go, go , (SQL)", "Languages",
     "- Rest-Api, May 2022", "SKILLS, K8s,  - go"}

\* the columns of a two-column CV
ColumnTexts ==
    {"",
     "Skills\nGo, SQL",
     "TECHNICAL SKILLS\ngo, Java, GO\n- sql",
     "Education\nMaster of Arts\nMIT University 2017\nSkills\nSQL, Sql",
     "Experience\nLead Dev\nAcme | 2020 - Now\n- APIs\nSkills\nJava, Rust"}

InitSkills ==
    /\ CriteriaIdle
    /\ RetryIdle
    /\ CacheIdle
    /\ PaddleIdle
    /\ BulkIdle
    /\ OcrIdle
    /\ AppIdle
    /\ CapIdle
    /\ ExtractIdle
    /\ SeparateIdle
    /\ SectionsIdle
    /\ ScoreIdle
    /\ MatchIdle
    /\ StoreIdle
    /\ EmbedIdle
    /\ WorkIdle
    /\ EducationIdle
    /\ \/ /\ skills_section \in {JoinLines(ls) : ls \in SeqsUpTo(SkillLinePool, MaxSkillLines)}
          /\ left_column = ""
          /\ right_column = ""
       \/ /\ skills_section = ""
          /\ left_column \in ColumnTexts
          /\ right_column \in ColumnTexts
    /\ parsed_skills = None
    /\ tier2 = None

ParseSkills ==
    /\ parsed_skills = None
    /\ parsed_skills' = Some(parse_skills(skills_section))
    /\ UNCHANGED <<skills_section, left_column, right_column, tier2, scoreVars, matchVars,
                   storeVars, embedVars, workVars, educationVars, sectionVars, separateVars, extractVars, capVars, appVars, ocrVars, bulkVars, paddleVars, cacheVars, retryVars, criteriaVars>>

ExtractFromColumns ==
    /\ tier2 = None
    /\ tier2' = Some(extract_from_columns(left_column, right_column))
    /\ UNCHANGED <<skills_section, left_column, right_column, parsed_skills, scoreVars, matchVars,
                   storeVars, embedVars, workVars, educationVars, sectionVars, separateVars, extractVars, capVars, appVars, ocrVars, bulkVars, paddleVars, cacheVars, retryVars, criteriaVars>>

NextSkills == ParseSkills \/ ExtractFromColumns

SpecSkills == InitSkills /\ [][NextSkills]_vars


(* find_section_headers, one line of `for i, line in enumerate(lines)` per  *)
(* step, on texts of 1..MaxHeaderLines lines of HeaderLinePool.             *)

MaxHeaderLines == 3

HeaderLinePool ==
    {"Skills", "EDUCATION", "Master workexperience", "M.S. technicalskills", "Go, SQL", ""}

InitSections ==
    /\ CriteriaIdle
    /\ RetryIdle
    /\ CacheIdle
    /\ PaddleIdle
    /\ BulkIdle
    /\ OcrIdle
    /\ AppIdle
    /\ CapIdle
    /\ ExtractIdle
    /\ SeparateIdle
    /\ ScoreIdle
    /\ MatchIdle
    /\ StoreIdle
    /\ EmbedIdle
    /\ WorkIdle
    /\ EducationIdle
    /\ SkillsIdle
    /\ header_lines \in {ls \in SeqsUpTo(HeaderLinePool, MaxHeaderLines) : Len(ls) >= 1}
    /\ line_index = 1
    /\ header_state = NoSections
    /\ found_sections = None

\* one pass of the loop over the lines, lines 199-219
SectionLine ==
    /\ found_sections = None
    /\ line_index <= Len(header_lines)
    /\ header_state' = SectionStep(header_lines, line_index, header_state)
    /\ line_index' = line_index + 1
    /\ UNCHANGED <<header_lines, found_sections, scoreVars, matchVars, storeVars, embedVars,
                   workVars, educationVars, skillsVars, separateVars, extractVars, capVars, appVars, ocrVars, bulkVars, paddleVars, cacheVars, retryVars, criteriaVars>>

\* after the loop: close the last section and return, lines 221-225
ReturnSections ==
    /\ found_sections = None
    /\ line_index > Len(header_lines)
    /\ found_sections' = Some(CloseLast(header_state, Len(JoinLines(header_lines))))
    /\ UNCHANGED <<header_lines, line_index, header_state, scoreVars, matchVars, storeVars,
                   embedVars, workVars, educationVars, skillsVars, separateVars, extractVars, capVars, appVars, ocrVars, bulkVars, paddleVars, cacheVars, retryVars, criteriaVars>>

NextSections == SectionLine \/ ReturnSections

SpecSections == InitSections /\ [][NextSections]_vars


(* separate_columns applied to every list of at most MaxOcrLines lines of   *)
(* OcrLinePool.                                                             *)

MaxOcrLines == 2

OcrLinePool ==
    {[text |-> "Skills", bbox |-> [form |-> "flat", coords |-> <<100, 40, 300, 60>>]],
     [text |-> "Go, SQL", bbox |-> [form |-> "flat", coords |-> <<100, 20, 300, 40>>]],
     [text |-> "Experience", bbox |-> [form |-> "nested", coords |-> <<600, 20>>]],
     [text |-> "Lead Dev", bbox |-> [form |-> "nested", coords |-> <<500, 10>>]],
     [text |-> "Acme", bbox |-> [form |-> "flat", coords |-> <<700>>]],
     [text |-> "Java", bbox |-> [form |-> "nested", coords |-> <<>>]],
     [text |-> "Education", bbox |-> [form |-> "absent", coords |-> <<>>]],
     [text |-> "Rust", bbox |-> [form |-> "flat", coords |-> <<>>]],
     [text |-> "", bbox |-> [form |-> "flat", coords |-> <<100, 30, 300, 50>>]],
     [text |-> "MIT", bbox |-> [form |-> "flat", coords |-> <<499, 30, 600, 50>>]]}

InitSeparate ==
    /\ CriteriaIdle
    /\ RetryIdle
    /\ CacheIdle
    /\ PaddleIdle
    /\ BulkIdle
    /\ OcrIdle
    /\ AppIdle
    /\ CapIdle
    /\ ExtractIdle
    /\ ScoreIdle
    /\ MatchIdle
    /\ StoreIdle
    /\ EmbedIdle
    /\ WorkIdle
    /\ EducationIdle
    /\ SkillsIdle
    /\ SectionsIdle
    /\ ocr_lines \in SeqsUpTo(OcrLinePool, MaxOcrLines)
    /\ separated = None

SeparateColumns ==
    /\ separated = None
    /\ separated' = Some(separate_columns(ocr_lines, default_column_threshold))
    /\ UNCHANGED <<ocr_lines, scoreVars, matchVars, storeVars, embedVars, workVars,
                   educationVars, skillsVars, sectionVars, extractVars, capVars, appVars, ocrVars, bulkVars, paddleVars, cacheVars, retryVars, criteriaVars>>

NextSeparate == SeparateColumns

SpecSeparate == InitSeparate /\ [][NextSeparate]_vars


(* The two routes that run the structured extraction, each on every request *)
(* built from ExtractTexts, ExtractLines and the outcomes of the OCR         *)
(* processor.                                                               *)

ExtractTexts ==
    {"", "Resume", "Java,UK", "123456", "City:Paris", "Skills\nGo, SQL",
     "Jane Doe\njane@x.io", "Jane Doe\nSkills\nGo, SQL"}

ExtractLines ==
    {None, Some(<<>>),
     Some(<<[text |-> "Resume", bbox |-> [form |-> "absent", coords |-> <<>>]]>>),
     Some(<<[text |-> "Skills", bbox |-> [form |-> "flat", coords |-> <<100, 10, 300, 30>>]],
            [text |-> "Rust", bbox |-> [form |-> "flat", coords |-> <<100, 40, 300, 60>>]]>>)}

StructuredRequests ==
    {[route |-> "extract-structured", text |-> t, lines |-> ocr, processor |-> FALSE,
      supported |-> FALSE, base64_ok |-> FALSE, ocr_exception |-> "",
      extract_structured |-> FALSE] : t \in ExtractTexts, ocr \in ExtractLines}

\* a request of /process whose OCR run returns the text t
ProcessRequestsReturning ==
    {[route |-> "process", text |-> t, lines |-> None, processor |-> p, supported |-> s,
      base64_ok |-> b, ocr_exception |-> "", extract_structured |-> e] :
        t \in ExtractTexts, p \in BOOLEAN, s \in BOOLEAN, b \in BOOLEAN, e \in BOOLEAN}

\* a request of /process whose OCR run raises
ProcessRequestsRaising ==
    {[route |-> "process", text |-> "", lines |-> None, processor |-> TRUE, supported |-> TRUE,
      base64_ok |-> TRUE, ocr_exception |-> x, extract_structured |-> e] :
        x \in {"ValueError", "RuntimeError"}, e \in BOOLEAN}

InitExtract ==
    /\ CriteriaIdle
    /\ RetryIdle
    /\ CacheIdle
    /\ PaddleIdle
    /\ BulkIdle
    /\ OcrIdle
    /\ AppIdle
    /\ CapIdle
    /\ ScoreIdle
    /\ MatchIdle
    /\ StoreIdle
    /\ EmbedIdle
    /\ WorkIdle
    /\ EducationIdle
    /\ SkillsIdle
    /\ SectionsIdle
    /\ SeparateIdle
    /\ http_request \in StructuredRequests \cup ProcessRequestsReturning \cup ProcessRequestsRaising
    /\ http_response = None

\* POST /api/ocr/extract-structured
ExtractStructured ==
    /\ http_response = None
    /\ http_request.route = "extract-structured"
    /\ http_response' = Some(StructuredResponse(extract_structured_data(http_request.text,
                                                                        http_request.lines)))
    /\ UNCHANGED <<http_request, scoreVars, matchVars, storeVars, embedVars, workVars,
                   educationVars, skillsVars, sectionVars, separateVars, capVars, appVars, ocrVars, bulkVars, paddleVars, cacheVars, retryVars, criteriaVars>>

\* POST /api/ocr/process
ProcessDocument ==
    /\ http_response = None
    /\ http_request.route = "process"
    /\ http_response' = Some(process_document(http_request))
    /\ UNCHANGED <<http_request, scoreVars, matchVars, storeVars, embedVars, workVars,
                   educationVars, skillsVars, sectionVars, separateVars, capVars, appVars, ocrVars, bulkVars, paddleVars, cacheVars, retryVars, criteriaVars>>

NextExtract == ExtractStructured \/ ProcessDocument

SpecExtract == InitExtract /\ [][NextExtract]_vars


(* A client that calls get_candidate at most MaxFetches times, one call     *)
(* after the other; the network and the token service answer as they        *)
(* please.                                                                  *)

MaxFetches == 2

CapCandidateIds == {"c1", "c2"}

InitCap ==
    /\ CriteriaIdle
    /\ RetryIdle
    /\ CacheIdle
    /\ PaddleIdle
    /\ BulkIdle
    /\ OcrIdle
    /\ AppIdle
    /\ ScoreIdle
    /\ MatchIdle
    /\ StoreIdle
    /\ EmbedIdle
    /\ WorkIdle
    /\ EducationIdle
    /\ SkillsIdle
    /\ SectionsIdle
    /\ SeparateIdle
    /\ ExtractIdle
    /\ base_url \in {"", "http://localhost:4004"}
    /\ token_cached = FALSE
    /\ cap_call = None
    /\ cap_log = <<>>

\* the caller awaits get_candidate(candidate_id): the wrapper starts
CallGetCandidate ==
    /\ cap_call = None
    /\ Len(cap_log) < MaxFetches
    /\ \E candidate_id \in CapCandidateIds : cap_call' = Some(NewCall(candidate_id))
    /\ UNCHANGED <<base_url, token_cached, cap_log, scoreVars, matchVars, storeVars, embedVars,
                   workVars, educationVars, skillsVars, sectionVars, separateVars, extractVars, appVars, ocrVars, bulkVars, paddleVars, cacheVars, retryVars, criteriaVars>>

\* the wrapper with the result of this attempt: it returns the value, or on a
\* retried exception sleeps and goes on, or raises after the last attempt
AfterAttempt(call, result) ==
    IF result.exception \notin RetriedExceptions
    THEN /\ cap_call' = None
         /\ cap_log' = Append(cap_log, Finished(call, result.exception, result.value))
    ELSE IF call.attempt < max_attempts
    THEN /\ cap_call' = Some(Retried(call))
         /\ cap_log' = cap_log
    ELSE /\ cap_call' = None
         /\ cap_log' = Append(cap_log, Finished(call, result.exception, None))

\* one pass of the wrapper's loop: await func(*args, **kwargs) and what follows
Attempt ==
    /\ cap_call # None
    /\ \E http_outcome \in HttpOutcomes, token_outcome \in TokenOutcomes :
           /\ token_outcome = "cached" => token_cached
           /\ token_cached' = IF base_url = "" THEN token_cached
                              ELSE TokenAfter(token_cached, token_outcome)
           /\ AfterAttempt(Requested(cap_call[1],
                                     get_candidate(base_url, cap_call[1].candidate_id, http_outcome),
                                     http_outcome),
                           get_candidate(base_url, cap_call[1].candidate_id, http_outcome))
    /\ UNCHANGED <<base_url, scoreVars, matchVars, storeVars, embedVars, workVars,
                   educationVars, skillsVars, sectionVars, separateVars, extractVars, appVars, ocrVars, bulkVars, paddleVars, cacheVars, retryVars, criteriaVars>>

NextCap == CallGetCandidate \/ Attempt

SpecCap == InitCap /\ [][NextCap]_vars


(* At most MaxRequests requests to the paths of RequestPaths; time passes   *)
(* in steps of TickSeconds while handlers run, for at most MaxTicks steps   *)
(* per handler.                                                             *)

MaxRequests == 2
MaxTicks == 3
TickSeconds == 60

RequestPaths ==
    {"/health", "/health/live", "/health/ready", "/", "/api/ocr/process",
     "/api/matching/semantic"}

InitApp ==
    /\ CriteriaIdle
    /\ RetryIdle
    /\ CacheIdle
    /\ PaddleIdle
    /\ BulkIdle
    /\ OcrIdle
    /\ ScoreIdle
    /\ MatchIdle
    /\ StoreIdle
    /\ EmbedIdle
    /\ WorkIdle
    /\ EducationIdle
    /\ SkillsIdle
    /\ SectionsIdle
    /\ SeparateIdle
    /\ ExtractIdle
    /\ CapIdle
    /\ inflight = <<>>

\* a request arrives and its handler starts
ReceiveRequest ==
    /\ Len(inflight) < MaxRequests
    /\ \E path \in RequestPaths :
           inflight' = Append(inflight, [path |-> path, elapsed |-> 0, status |-> 0])
    /\ UNCHANGED <<scoreVars, matchVars, storeVars, embedVars, workVars, educationVars,
                   skillsVars, sectionVars, separateVars, extractVars, capVars, ocrVars, bulkVars, paddleVars, cacheVars, retryVars, criteriaVars>>

\* the handler of a running request returns
HandlerReturns ==
    /\ \E k \in DOMAIN inflight :
           /\ inflight[k].status = 0
           /\ inflight' = [inflight EXCEPT ![k].status = 200]
    /\ UNCHANGED <<scoreVars, matchVars, storeVars, embedVars, workVars, educationVars,
                   skillsVars, sectionVars, separateVars, extractVars, capVars, ocrVars, bulkVars, paddleVars, cacheVars, retryVars, criteriaVars>>

\* TickSeconds pass for every running handler
TimePasses ==
    /\ \E k \in DOMAIN inflight : inflight[k].status = 0
    /\ \A k \in DOMAIN inflight :
           inflight[k].status = 0 => inflight[k].elapsed + TickSeconds <= MaxTicks * TickSeconds
    /\ inflight' = [k \in DOMAIN inflight |->
                       AfterSeconds(installed_middleware, inflight[k], TickSeconds)]
    /\ UNCHANGED <<scoreVars, matchVars, storeVars, embedVars, workVars, educationVars,
                   skillsVars, sectionVars, separateVars, extractVars, capVars, ocrVars, bulkVars, paddleVars, cacheVars, retryVars, criteriaVars>>

NextApp == ReceiveRequest \/ HandlerReturns \/ TimePasses

SpecApp == InitApp /\ [][NextApp]_vars


(* The service after startup: the processor built from the configured       *)
(* engine, the database pool, and the calls that read or change them.       *)

EngineSettings == {None, Some("rapidocr"), Some("paddleocr"), Some("tesseract")}

InitOcr ==
    /\ CriteriaIdle
    /\ RetryIdle
    /\ CacheIdle
    /\ PaddleIdle
    /\ BulkIdle
    /\ ScoreIdle
    /\ MatchIdle
    /\ StoreIdle
    /\ EmbedIdle
    /\ WorkIdle
    /\ EducationIdle
    /\ SkillsIdle
    /\ SectionsIdle
    /\ SeparateIdle
    /\ ExtractIdle
    /\ CapIdle
    /\ AppIdle
    /\ ocr_processor \in {OCRProcessor(engine, env) : engine \in EngineSettings, env \in Installations}
    /\ db_pool \in {"none", "connected"}
    /\ service_reply = None

\* processor.switch_engine(engine); an unknown engine raises ValueError
SwitchEngine ==
    /\ \E engine \in valid_engines \cup {"easyocr"}, env \in Installations :
           IF engine \in valid_engines
           THEN /\ ocr_processor' = switch_engine(ocr_processor, engine, env)
                /\ service_reply' = Some([call |-> "switch_engine", exception |-> "",
                                          result |-> engine])
           ELSE /\ ocr_processor' = ocr_processor
                /\ service_reply' = Some([call |-> "switch_engine", exception |-> "ValueError",
                                          result |-> engine])
    /\ UNCHANGED <<db_pool, scoreVars, matchVars, storeVars, embedVars, workVars, educationVars,
                   skillsVars, sectionVars, separateVars, extractVars, capVars, appVars, bulkVars, paddleVars, cacheVars, retryVars, criteriaVars>>

\* processor.get_engine_info()
GetEngineInfo ==
    /\ service_reply' = Some([call |-> "get_engine_info", exception |-> "",
                              result |-> get_engine_info(ocr_processor)])
    /\ UNCHANGED <<ocr_processor, db_pool, scoreVars, matchVars, storeVars, embedVars, workVars,
                   educationVars, skillsVars, sectionVars, separateVars, extractVars, capVars,
                   appVars, bulkVars, paddleVars, cacheVars, retryVars, criteriaVars>>

\* GET /health/ready
ReadinessCheck ==
    /\ service_reply' = Some([call |-> "readiness_check", exception |-> "",
                              result |-> readiness_check(ocr_processor, db_pool)])
    /\ UNCHANGED <<ocr_processor, db_pool, scoreVars, matchVars, storeVars, embedVars, workVars,
                   educationVars, skillsVars, sectionVars, separateVars, extractVars, capVars,
                   appVars, bulkVars, paddleVars, cacheVars, retryVars, criteriaVars>>

\* the database stops or resumes answering behind a connected pool
DatabaseChanges ==
    /\ db_pool # "none"
    /\ db_pool' = IF db_pool = "connected" THEN "down" ELSE "connected"
    /\ UNCHANGED <<ocr_processor, service_reply, scoreVars, matchVars, storeVars, embedVars,
                   workVars, educationVars, skillsVars, sectionVars, separateVars, extractVars,
                   capVars, appVars, bulkVars, paddleVars, cacheVars, retryVars, criteriaVars>>

NextOcr == SwitchEngine \/ GetEngineInfo \/ ReadinessCheck \/ DatabaseChanges

SpecOcr == InitOcr /\ [][NextOcr]_vars

(* bulk_generate_candidate_embeddings on a list of at most MaxBulk dicts of *)
(* BulkPool, one loop iteration per step.                                  *)

MaxBulk == 3

BulkPool ==
    {[candidate_id |-> Some(1), cv_text |-> Some("ab")],
     [candidate_id |-> Some(2), cv_text |-> Some("a"), skills_text |-> Some("b")],
     [candidate_id |-> Some(1)],
     [cv_text |-> Some("ab")],
     [candidate_id |-> Some(2), cv_text |-> None, skills_text |-> Some("b")]}

InitBulk ==
    /\ CriteriaIdle
    /\ RetryIdle
    /\ CacheIdle
    /\ PaddleIdle
    /\ ScoreIdle
    /\ MatchIdle
    /\ StoreIdle
    /\ WorkIdle
    /\ EducationIdle
    /\ SkillsIdle
    /\ SectionsIdle
    /\ SeparateIdle
    /\ ExtractIdle
    /\ CapIdle
    /\ AppIdle
    /\ OcrIdle
    /\ db \in BOOLEAN
    /\ calls = <<>>
    /\ bulk_candidates \in SeqsUpTo(BulkPool, MaxBulk)
    /\ bulk_next = 1
    /\ bulk_summary = [processed |-> 0, failed |-> 0, errors |-> <<>>]
    /\ bulk_attempted = <<>>
    /\ bulk_result = None

\* the loop body for candidates[bulk_next]
BulkIteration ==
    /\ bulk_result = None
    /\ bulk_next <= Len(bulk_candidates)
    /\ \E encode_raises \in BOOLEAN, execute_fails \in BOOLEAN :
           LET candidate == bulk_candidates[bulk_next]
               outcome == BulkCall(candidate, candidate_embeddings, db, encode_raises,
                                   execute_fails)
           IN  /\ candidate_embeddings' = outcome.table
               /\ bulk_summary' = BulkStep(bulk_summary, candidate, outcome.exception)
    /\ bulk_attempted' = Append(bulk_attempted, bulk_next)
    /\ bulk_next' = bulk_next + 1
    /\ UNCHANGED <<bulk_candidates, bulk_result, db, calls, job_embeddings, scoring_criteria,
                   response, scoreVars, storeVars, workVars, educationVars, skillsVars,
                   sectionVars, separateVars, extractVars, capVars, appVars, ocrVars, paddleVars, cacheVars, retryVars, criteriaVars>>

\* return {'processed': processed, 'failed': failed, 'errors': errors}
BulkReturn ==
    /\ bulk_result = None
    /\ bulk_next > Len(bulk_candidates)
    /\ bulk_result' = Some(bulk_summary)
    /\ UNCHANGED <<bulk_candidates, bulk_next, bulk_summary, bulk_attempted, db, calls,
                   matchVars, scoreVars, storeVars, workVars, educationVars, skillsVars,
                   sectionVars, separateVars, extractVars, capVars, appVars, ocrVars, paddleVars, cacheVars, retryVars, criteriaVars>>

NextBulk == BulkIteration \/ BulkReturn

SpecBulk == InitBulk /\ [][NextBulk]_vars

(* At most MaxPaddleCalls calls of _ocr_with_paddle, one after the other.   *)

MaxPaddleCalls == 3

InitPaddle ==
    /\ CriteriaIdle
    /\ RetryIdle
    /\ CacheIdle
    /\ ScoreIdle
    /\ MatchIdle
    /\ StoreIdle
    /\ EmbedIdle
    /\ WorkIdle
    /\ EducationIdle
    /\ SkillsIdle
    /\ SectionsIdle
    /\ SeparateIdle
    /\ ExtractIdle
    /\ CapIdle
    /\ AppIdle
    /\ OcrIdle
    /\ BulkIdle
    /\ temp_files = {}
    /\ paddle_calls = <<>>

PaddleRunning == \E k \in DOMAIN paddle_calls : paddle_calls[k].pc \in {"with", "try"}

TempFilesMade ==
    Cardinality({k \in DOMAIN paddle_calls : paddle_calls[k].temp_path # None})

\* the call up to the creation of the temporary file
CreateTempFile ==
    /\ ~PaddleRunning
    /\ Len(paddle_calls) < MaxPaddleCalls
    /\ \E image \in ImageKinds, fromarray_raises \in BOOLEAN :
           LET call == PaddleEntered(image, fromarray_raises, TempFilesMade)
           IN  /\ paddle_calls' = Append(paddle_calls, call)
               /\ temp_files' = IF call.temp_path = None THEN temp_files
                                ELSE temp_files \cup {call.temp_path[1]}
    /\ UNCHANGED <<scoreVars, matchVars, storeVars, embedVars, workVars, educationVars,
                   skillsVars, sectionVars, separateVars, extractVars, capVars, appVars,
                   ocrVars, bulkVars, cacheVars, retryVars, criteriaVars>>

\* the body of the with block
SaveImage ==
    /\ paddle_calls # <<>>
    /\ paddle_calls[Len(paddle_calls)].pc = "with"
    /\ \E save_raises \in BOOLEAN :
           paddle_calls' = [paddle_calls EXCEPT
                                ![Len(paddle_calls)] = PaddleSaved(@, save_raises)]
    /\ UNCHANGED <<temp_files, scoreVars, matchVars, storeVars, embedVars, workVars,
                   educationVars, skillsVars, sectionVars, separateVars, extractVars, capVars,
                   appVars, ocrVars, bulkVars, cacheVars, retryVars, criteriaVars>>

\* the try statement with its finally clause
PredictAndUnlink ==
    /\ paddle_calls # <<>>
    /\ paddle_calls[Len(paddle_calls)].pc = "try"
    /\ \E predict_raises \in BOOLEAN :
           paddle_calls' = [paddle_calls EXCEPT
                                ![Len(paddle_calls)] = PaddlePredicted(@, predict_raises)]
    /\ temp_files' = UnlinkIfExists(temp_files, paddle_calls[Len(paddle_calls)].temp_path[1])
    /\ UNCHANGED <<scoreVars, matchVars, storeVars, embedVars, workVars, educationVars,
                   skillsVars, sectionVars, separateVars, extractVars, capVars, appVars,
                   ocrVars, bulkVars, cacheVars, retryVars, criteriaVars>>

NextPaddle == CreateTempFile \/ SaveImage \/ PredictAndUnlink

SpecPaddle == InitPaddle /\ [][NextPaddle]_vars

(* One EmbeddingCache of maxsize at most MaxCacheSize and at most           *)
(* MaxCacheOps calls of its methods.                                        *)

MaxCacheSize == 2
MaxCacheOps == 5

CacheTexts == {<<"a", FALSE>>, <<"b", FALSE>>, <<"c", FALSE>>, <<"a", TRUE>>}
CacheEmbeddings == {<<10, 0>>, <<8, 6>>}

InitCache ==
    /\ CriteriaIdle
    /\ RetryIdle
    /\ ScoreIdle
    /\ MatchIdle
    /\ StoreIdle
    /\ EmbedIdle
    /\ WorkIdle
    /\ EducationIdle
    /\ SkillsIdle
    /\ SectionsIdle
    /\ SeparateIdle
    /\ ExtractIdle
    /\ CapIdle
    /\ AppIdle
    /\ OcrIdle
    /\ BulkIdle
    /\ PaddleIdle
    /\ cache_maxsize \in 1..MaxCacheSize
    /\ cache_entries = <<>>
    /\ cache_hits = 0
    /\ cache_misses = 0
    /\ cache_call = None
    /\ use_order = <<>>

CacheCalls == cache_hits + cache_misses

\* cache.get(text, is_query)
CacheGet ==
    /\ CacheCalls < MaxCacheOps
    /\ \E arg \in CacheTexts :
           LET out == get(cache_entries, arg[1], arg[2])
               k == CacheKey(arg[1], arg[2])
           IN  /\ cache_entries' = out.entries
               /\ cache_hits' = IF out.result # None THEN cache_hits + 1 ELSE cache_hits
               /\ cache_misses' = IF out.result = None THEN cache_misses + 1 ELSE cache_misses
               /\ use_order' = IF out.result # None THEN UsedLast(use_order, k) ELSE use_order
               /\ cache_call' = Some([op |-> "get", key |-> k, result |-> out.result,
                                      evicted |-> <<>>])
    /\ UNCHANGED <<cache_maxsize, scoreVars, matchVars, storeVars, embedVars, workVars,
                   educationVars, skillsVars, sectionVars, separateVars, extractVars, capVars,
                   appVars, ocrVars, bulkVars, paddleVars, retryVars, criteriaVars>>

\* cache.set(text, embedding, is_query)
CacheSet ==
    /\ \E arg \in CacheTexts, value \in CacheEmbeddings :
           LET out == set(cache_entries, cache_maxsize, arg[1], value, arg[2])
               k == CacheKey(arg[1], arg[2])
           IN  /\ cache_entries' = out.entries
               /\ use_order' = IF out.exception # "" THEN use_order
                               ELSE UseOrderAfterSet(use_order, cache_entries, out.evicted, k)
               /\ cache_call' = Some([op |-> "set", key |-> k, result |-> Some(value),
                                      evicted |-> out.evicted])
    /\ UNCHANGED <<cache_maxsize, cache_hits, cache_misses, scoreVars, matchVars, storeVars,
                   embedVars, workVars, educationVars, skillsVars, sectionVars, separateVars,
                   extractVars, capVars, appVars, ocrVars, bulkVars, paddleVars, retryVars, criteriaVars>>

\* cache.remove(text, is_query)
CacheRemove ==
    /\ \E arg \in CacheTexts :
           LET out == remove(cache_entries, arg[1], arg[2])
               k == CacheKey(arg[1], arg[2])
           IN  /\ cache_entries' = out.entries
               /\ use_order' = SelectSeq(use_order, LAMBDA u : u # k)
               /\ cache_call' = Some([op |-> "remove", key |-> k, result |-> None,
                                      evicted |-> <<>>])
    /\ UNCHANGED <<cache_maxsize, cache_hits, cache_misses, scoreVars, matchVars, storeVars,
                   embedVars, workVars, educationVars, skillsVars, sectionVars, separateVars,
                   extractVars, capVars, appVars, ocrVars, bulkVars, paddleVars, retryVars, criteriaVars>>

\* cache.clear()
CacheClear ==
    /\ cache_entries' = <<>>
    /\ cache_hits' = 0
    /\ cache_misses' = 0
    /\ use_order' = <<>>
    /\ cache_call' = Some([op |-> "clear", key |-> <<"", 0>>, result |-> None,
                           evicted |-> <<>>])
    /\ UNCHANGED <<cache_maxsize, scoreVars, matchVars, storeVars, embedVars, workVars,
                   educationVars, skillsVars, sectionVars, separateVars, extractVars, capVars,
                   appVars, ocrVars, bulkVars, paddleVars, retryVars, criteriaVars>>

NextCache == CacheGet \/ CacheSet \/ CacheRemove \/ CacheClear

SpecCache == InitCache /\ [][NextCache]_vars

(* One call of a function wrapped by async_retry, for every choice of the   *)
(* decorator's parameters from small sets, one loop pass per step.          *)

MaxRetryAttempts == 3
MaxRetryDelay == 4

RetryParams ==
    [max_attempts : 1..MaxRetryAttempts, delay : 1..MaxRetryDelay, backoff : 1..2,
     max_delay : {2, 3}]

InitRetry ==
    /\ CriteriaIdle
    /\ ScoreIdle
    /\ MatchIdle
    /\ StoreIdle
    /\ EmbedIdle
    /\ WorkIdle
    /\ EducationIdle
    /\ SkillsIdle
    /\ SectionsIdle
    /\ SeparateIdle
    /\ ExtractIdle
    /\ CapIdle
    /\ AppIdle
    /\ OcrIdle
    /\ BulkIdle
    /\ PaddleIdle
    /\ CacheIdle
    /\ retry_params \in RetryParams
    /\ retry_run = RetryStart(retry_params)

\* the next pass of the loop of wrapper
InvokeWrapped ==
    /\ retry_run.pc = "loop"
    /\ \E outcome \in {"ok", "listed", "unlisted"} :
           retry_run' = RetryPass(retry_params, retry_run, outcome)
    /\ UNCHANGED <<retry_params, scoreVars, matchVars, storeVars, embedVars, workVars,
                   educationVars, skillsVars, sectionVars, separateVars, extractVars, capVars,
                   appVars, ocrVars, bulkVars, paddleVars, cacheVars, criteriaVars>>

NextRetry == InvokeWrapped

SpecRetry == InitRetry /\ [][NextRetry]_vars

(* At most MaxSetRequests concurrent POST /api/scoring/criteria requests    *)
(* for job 1, one statement per step.                                      *)

MaxSetRequests == 2

SetCriteriaRequest(criteria_list) ==
    [job_posting_id |-> 1, criteria |-> criteria_list, replace_existing |-> TRUE]

\* a criterion of the request with its sort_order, as the row it is stored as
RequestRow(request, n) ==
    CriteriaRow(request.job_posting_id, request.criteria[n].sort_order,
                request.criteria[n].criterion)

SetCriteriaRequests ==
    {SetCriteriaRequest(<<[sort_order |-> 0,
                           criterion |-> Criterion("skill", "JavaScript", 10, TRUE, 10, None, None, None)],
                          [sort_order |-> 1,
                           criterion |-> Criterion("education", "Master", 10, FALSE, 10, None, None, None)]>>),
     SetCriteriaRequest(<<[sort_order |-> 0,
                           criterion |-> Criterion("skill", "Python", 5, FALSE, 5, None, None, None)],
                          [sort_order |-> 1,
                           criterion |-> Criterion("skill", "JavaScript", 5, FALSE, 10, None, None, None)]>>),
     SetCriteriaRequest(<<[sort_order |-> 0,
                           criterion |-> Criterion("experience", "4", 10, FALSE, 10, None, None, None)]>>),
     SetCriteriaRequest(<<>>)}

InitCriteria ==
    /\ ScoreIdle
    /\ StoreIdle
    /\ WorkIdle
    /\ EducationIdle
    /\ SkillsIdle
    /\ SectionsIdle
    /\ SeparateIdle
    /\ ExtractIdle
    /\ CapIdle
    /\ AppIdle
    /\ OcrIdle
    /\ BulkIdle
    /\ PaddleIdle
    /\ CacheIdle
    /\ RetryIdle
    /\ db \in BOOLEAN
    /\ calls = <<>>
    /\ candidate_embeddings = <<>>
    /\ job_embeddings = <<>>
    /\ response = NoResponse
    /\ scoring_criteria \in {T \in CriteriaTables : Len(T) <= 2}
    /\ criteria_requests = <<>>
    /\ criteria_before = scoring_criteria

\* the handler up to its first await
SetScoringCriteria ==
    /\ Len(criteria_requests) < MaxSetRequests
    /\ \E request \in SetCriteriaRequests :
           criteria_requests' = Append(criteria_requests, CriteriaRequestReceived(request, db))
    /\ UNCHANGED <<criteria_before, db, calls, matchVars, scoreVars, storeVars, workVars,
                   educationVars, skillsVars, sectionVars, separateVars, extractVars, capVars,
                   appVars, ocrVars, bulkVars, paddleVars, cacheVars, retryVars>>

\* await db.execute("DELETE FROM scoring_criteria WHERE job_posting_id = $1", ...)
DeleteExisting ==
    /\ \E k \in DOMAIN criteria_requests, execute_fails \in BOOLEAN :
           /\ criteria_requests[k].pc = "delete"
           /\ scoring_criteria' =
                  IF execute_fails THEN scoring_criteria
                  ELSE DeleteJobCriteria(scoring_criteria,
                                         criteria_requests[k].request.job_posting_id)
           /\ criteria_requests' =
                  [criteria_requests EXCEPT ![k] = AfterStatement(@, execute_fails, FALSE)]
    /\ UNCHANGED <<criteria_before, db, calls, candidate_embeddings, job_embeddings, response,
                   scoreVars, storeVars, workVars, educationVars, skillsVars, sectionVars,
                   separateVars, extractVars, capVars, appVars, ocrVars, bulkVars, paddleVars,
                   cacheVars, retryVars>>

\* await db.execute(insert_query, ...) for the next criterion of the request
InsertCriterion ==
    /\ \E k \in DOMAIN criteria_requests, execute_fails \in BOOLEAN :
           /\ criteria_requests[k].pc = "insert"
           /\ scoring_criteria' =
                  IF execute_fails THEN scoring_criteria
                  ELSE UpsertCriterion(scoring_criteria,
                                       RequestRow(criteria_requests[k].request,
                                                  criteria_requests[k].next))
           /\ criteria_requests' =
                  [criteria_requests EXCEPT ![k] = AfterStatement(@, execute_fails, TRUE)]
    /\ UNCHANGED <<criteria_before, db, calls, candidate_embeddings, job_embeddings, response,
                   scoreVars, storeVars, workVars, educationVars, skillsVars, sectionVars,
                   separateVars, extractVars, capVars, appVars, ocrVars, bulkVars, paddleVars,
                   cacheVars, retryVars>>

NextCriteria == SetScoringCriteria \/ DeleteExisting \/ InsertCriterion

SpecCriteria == InitCriteria /\ [][NextCriteria]_vars

-----------------------------------------------------------------------------
(* Properties                                                               *)

Returned == scoring_result # None /\ scoring_result[1].exception = ""

RECURSIVE SumPointsEarned(_)
SumPointsEarned(results) ==
    IF Len(results) = 0 THEN 0
    ELSE results[1].points_earned + SumPointsEarned(Tail(results))

\* C1: a ScoringResult returned by calculate_score is disqualified exactly
\* when its required_missing list is not empty, the empty criteria list
\* included.
C1_DisqualificationClosure ==
    Returned =>
        (scoring_result[1].disqualified <=> Len(scoring_result[1].required_missing) > 0)

C1_Witness ==
    /\ Returned
    /\ scoring_result[1].disqualified
    /\ Len(scoring_result[1].required_missing) = 1
    /\ Len(scoring_result[1].missing_criteria) = 2

\* C2: the percentage of a returned ScoringResult lies in [0, 100] and a
\* matched experience criterion never earns more than its points_possible.
C2_PercentageWithinBounds ==
    Returned =>
        /\ scoring_result[1].percentage >= 0
        /\ scoring_result[1].percentage <= 10000
        /\ \A i \in DOMAIN scoring_result[1].matched_criteria :
               LET c == scoring_result[1].matched_criteria[i]
               IN  Lower(c.criteria_type) = "experience" => c.points_earned <= c.points_possible

\* C5: total_points is the sum of points_earned over every evaluated
\* criterion, the partial points of unmatched criteria included.
C5_TotalCountsEveryCriterion ==
    Returned =>
        scoring_result[1].total_points =
            SumPointsEarned(scoring_result[1].matched_criteria)
                + SumPointsEarned(scoring_result[1].missing_criteria)

\* C6: a returned ScoringResult with max_points = 0 has percentage 100,
\* for the empty criteria list and for a list whose points_possible are all 0.
C6_ZeroMaxIsFullPercentage ==
    (Returned /\ scoring_result[1].max_points = 0) => scoring_result[1].percentage = 10000

\* C3: every MatchResult answered by find_matches or calculate_single_match
\* has a combined_score in [0, 100].
C3_CombinedScoreWithinBounds ==
    \A i \in DOMAIN response.matches :
        response.matches[i].combined_score >= 0 /\ response.matches[i].combined_score <= 10000

\* C4: in the list answered by find_matches the i-th element (counted from 1)
\* has rank i and no element has a smaller combined_score than its successor.
C4_RankMonotonicity ==
    response.op = "semantic" =>
        /\ \A i \in DOMAIN response.matches : response.matches[i].rank = i
        /\ \A i \in 1..(Len(response.matches) - 1) :
               response.matches[i].combined_score >= response.matches[i + 1].combined_score

C4_Witness ==
    /\ response.op = "semantic"
    /\ Len(response.matches) >= 2
    /\ response.matches[1].combined_score > response.matches[2].combined_score
    /\ response.matches[2].rank = 2

HasJobEmbedding(job_posting_id) ==
    \E i \in DOMAIN job_embeddings : job_embeddings[i].job_posting_id = job_posting_id

HasCandidateEmbedding(candidate_id) ==
    \E i \in DOMAIN candidate_embeddings : candidate_embeddings[i].candidate_id = candidate_id

\* C9: find_matches for a job without a stored embedding answers the empty
\* list with status 200; a single-match request with a missing candidate or
\* job embedding answers 404 and no MatchResult.
C9_MissingEmbeddings ==
    /\ (response.op = "semantic" /\ ~HasJobEmbedding(response.job_posting_id))
           => (response.status = 200 /\ response.matches = <<>>)
    /\ (response.op = "single"
            /\ (~HasCandidateEmbedding(response.candidate_id)
                    \/ ~HasJobEmbedding(response.job_posting_id)))
           => (response.status = 404 /\ response.matches = <<>>)

C9_Witness ==
    /\ response.op = "single"
    /\ HasCandidateEmbedding(response.candidate_id)
    /\ ~HasJobEmbedding(response.job_posting_id)
    /\ response.status = 404

CallsFor(candidate_id) ==
    {k \in DOMAIN calls : calls[k].request.candidate_id = candidate_id}

RowsFor(candidate_id) ==
    {k \in DOMAIN candidate_embeddings :
         candidate_embeddings[k].candidate_id = candidate_id}

\* C7: with a store configured, once every generate_candidate_embedding call
\* made for a candidate has returned, all of them with store = true and the
\* same texts, the calls returned one content_hash and candidate_embeddings
\* holds exactly one row for the candidate, carrying that hash.
C7_IdempotentGeneration ==
    \A candidate_id \in CandidateIds :
        (/\ db
         /\ CallsFor(candidate_id) # {}
         /\ \A k \in CallsFor(candidate_id) :
                /\ calls[k].request.store
                /\ calls[k].pc = "returned"
                /\ \A o \in CallsFor(candidate_id) : calls[o].request = calls[k].request)
        => \A k \in CallsFor(candidate_id) :
               /\ \A o \in CallsFor(candidate_id) :
                      calls[o].result[1].content_hash = calls[k].result[1].content_hash
               /\ Cardinality(RowsFor(candidate_id)) = 1
               /\ \A r \in RowsFor(candidate_id) :
                      candidate_embeddings[r].cv_text_hash = calls[k].result[1].content_hash

RowsOfPair(pair) ==
    {k \in DOMAIN semantic_match_results :
         /\ semantic_match_results[k].candidate_id = pair[1]
         /\ semantic_match_results[k].job_posting_id = pair[2]}

\* C8: for every pair a MatchResult was stored for, semantic_match_results
\* holds one row, and its criteria_percentage is 100 * criteria_score /
\* criteria_max_score of the MatchResult stored last for the pair, 0 when
\* that criteria_max_score is 0.
C8_StoredPercentageIsCurrent ==
    \A pair \in DOMAIN last_stored :
        last_stored[pair] # None =>
            /\ Cardinality(RowsOfPair(pair)) = 1
            /\ \A k \in RowsOfPair(pair) :
                   LET latest == last_stored[pair][1]
                       row == semantic_match_results[k]
                   IN  IF latest.criteria_max_score = 0
                       THEN row.criteria_percentage = 0
                       ELSE row.criteria_percentage * latest.criteria_max_score
                                = 10000 * latest.criteria_score

\* C10: parse_work_history emits one record per line with the date pattern,
\* in input order: while it seeks an anchor it has emitted a record for each
\* anchor passed, while it collects responsibilities exactly the anchor at i
\* is open and no anchor lies between i and j, and the list it returns has
\* the dates of the anchor lines in their order.
C10_OneRecordPerAnchor ==
    LET found == [a \in DOMAIN lines |-> date_search(lines[a])]
        anchors == {a \in DOMAIN lines : found[a] # None}
        AnchorsBefore(k) == {a \in anchors : a < k}
        NthAnchor(n) == CHOOSE a \in anchors : Cardinality(AnchorsBefore(a)) = n - 1
    IN  /\ parser_state = "SeekingAnchor" => Len(jobs) = Cardinality(AnchorsBefore(line_i))
        /\ parser_state = "CollectingResponsibilities" =>
               /\ Len(jobs) = Cardinality(AnchorsBefore(line_i))
               /\ line_i \in anchors
               /\ AnchorsBefore(line_j) = AnchorsBefore(line_i) \cup {line_i}
        /\ parser_state = "Returned" =>
               /\ Len(jobs) = Cardinality(anchors)
               /\ \A n \in DOMAIN jobs :
                      /\ jobs[n].startDate.value = found[NthAnchor(n)][1].group1
                      /\ jobs[n].endDate.value = found[NthAnchor(n)][1].group2

C10_Witness ==
    /\ parser_state = "Returned"
    /\ Len(jobs) = 2
    /\ jobs[1].startDate.value = "2018"
    /\ jobs[2].endDate.value = "Now"
    /\ jobs[1].responsibilities.value # ""

\* C11: for an education block of one degree-starter line followed by one
\* institution line that carries a year, parse_education returns exactly one
\* record.
C11_OneRecordForDegreeAndInstitution ==
    (/\ education_entries # None
     /\ Len(SplitText(education_text)) = 2
     /\ is_degree_start(SplitText(education_text)[1])
     /\ AnyIn(institution_indicators, SplitText(education_text)[2])
     /\ YearPositions(SplitText(education_text)[2]) # {})
        => Len(education_entries[1]) = 1


\* the lower-cased names of a skills list are pairwise different
LowerNamesUnique(skill_list) ==
    \A a, b \in DOMAIN skill_list :
        Lower(skill_list[a].name.value) = Lower(skill_list[b].name.value) => a = b

SkillNames(skill_list) == [k \in DOMAIN skill_list |-> skill_list[k].name.value]

\* skills texts that list REST-API and CI-CD, separated by a comma or a newline,
\* the second optionally behind a "- " bullet
RestApiAndCiCdTexts == {"REST-API, CI-CD", "REST-API\nCI-CD", "REST-API\n- CI-CD"}

\* C13: parse_skills keeps the dashes inside tokens: a text listing REST-API
\* and CI-CD yields the entries named exactly REST-API and CI-CD.
C13_DashTokensPreserved ==
    (parsed_skills # None /\ skills_section \in RestApiAndCiCdTexts)
        => SkillNames(parsed_skills[1]) = <<"REST-API", "CI-CD">>


\* C14: the pass over a line whose normalised text starts with a degree
\* prefix opens no section: current_section, section_start and sections
\* are left as they were.
C14_DegreeLineOpensNoSection ==
    [][(/\ line_index <= Len(header_lines)
        /\ StartsWithAny(normalize_text(header_lines[line_index]), degree_prefixes))
           => header_state' = header_state]_vars

\* the second line starts with "m.s." and holds the merged pattern
\* "technicalskills"; it has been passed and the section opened by the first
\* line is still the one that starts after that first line
C14_Witness ==
    /\ Len(header_lines) >= 2
    /\ header_lines[1] = "EDUCATION"
    /\ header_lines[2] = "M.S. technicalskills"
    /\ line_index = 3
    /\ header_state = [sections |-> {}, current_section |-> "education", section_start |-> 10]


\* the lines of a column text; the empty text has none
ColumnLines(column) == IF column = "" THEN <<>> ELSE SplitBy(column, "\n")

\* how often t occurs in the sequence ls
Occurrences(ls, t) == Cardinality({k \in DOMAIN ls : ls[k] = t})

InputTexts == [k \in DOMAIN ocr_lines |-> ocr_lines[k].text]

\* C15: the lines of left_text together with the lines of right_text are,
\* as a multiset, the texts of the input lines: no input line is dropped,
\* whatever its bbox.
C15_ColumnSplitTotal ==
    separated # None =>
        \A t \in {l.text : l \in OcrLinePool} :
            Occurrences(ColumnLines(separated[1][1]), t)
                + Occurrences(ColumnLines(separated[1][2]), t)
            = Occurrences(InputTexts, t)


\* the request reaches the structured extraction: the direct route always,
\* /process when the OCR run returned a non-empty text and extract_structured
\* is set
RunsStructuredExtraction(req) ==
    \/ req.route = "extract-structured"
    \/ /\ req.route = "process"
       /\ req.processor
       /\ req.supported
       /\ req.base64_ok
       /\ req.ocr_exception = ""
       /\ req.extract_structured
       /\ req.text # ""

\* C16: when the structured extraction runs and recognises no tier-1 field,
\* the response is a 422 on both routes, never a 500.
C16_NoPersonalInfoIs422 ==
    (/\ http_response # None
     /\ RunsStructuredExtraction(http_request)
     /\ extract_tier1_personal_info(http_request.text) = {})
        => http_response[1].status = 422


\* every request of the finished call failed at transport level
AllRequestsFailed(entry) ==
    /\ entry.requests # <<>>
    /\ \A k \in DOMAIN entry.requests : entry.requests[k] \in TransportFailures

\* C17: a call of get_candidate whose every request failed at transport level
\* is reported to the caller only after 3 requests, with sleeps of 1 s and
\* then 2 s between them.
C17_TransportFailureRetried ==
    \A k \in DOMAIN cap_log :
        AllRequestsFailed(cap_log[k])
            => /\ Len(cap_log[k].requests) = max_attempts
               /\ cap_log[k].sleeps = <<1000, 2000>>


HealthFamily == {"/health", "/health/live", "/health/ready"}

\* C18: no handler of a path outside the health family is still running at
\* the request timeout, and one that ran for the whole timeout was answered
\* with 504; a request to a health path is never answered with 504.
C18_RequestsBoundedByTimeout ==
    \A k \in DOMAIN inflight :
        IF inflight[k].path \in HealthFamily THEN inflight[k].status # 504
        ELSE /\ inflight[k].status = 0 => inflight[k].elapsed < request_timeout
             /\ inflight[k].elapsed >= request_timeout => inflight[k].status = 504


\* C19: an engine_info returned by get_engine_info names a primary engine
\* only when the handle of that engine is initialised.
C19_EngineInfoNamesWorkingEngine ==
    (service_reply # None /\ service_reply[1].call = "get_engine_info")
        => /\ service_reply[1].result.engine = "rapidocr"
                  => service_reply[1].result.rapid_available
           /\ service_reply[1].result.engine = "paddleocr"
                  => service_reply[1].result.paddle_available

\* the processor holds an initialised handle or a verified tesseract
HasWorkingEngine(proc) == proc._rapid_ocr \/ proc._paddle_ocr \/ proc._tesseract_available

AllAvailable == embedding_model_loaded /\ db_pool = "connected" /\ HasWorkingEngine(ocr_processor)

\* C20: a call of GET /health/ready answers 'ready' with components.ocr =
\* TRUE when the embedding model is loaded, the database answers and the
\* processor has a working engine, and answers 'degraded' only when one of
\* the three is missing.
C20_ReadyWhenAllAvailable ==
    [][(/\ service_reply' # service_reply
        /\ service_reply' # None
        /\ service_reply'[1].call = "readiness_check")
           => /\ AllAvailable => /\ service_reply'[1].result.status = "ready"
                                 /\ service_reply'[1].result.components.ocr
              /\ service_reply'[1].result.status = "degraded" => ~AllAvailable]_vars

(* C21: bulk_generate_candidate_embeddings handles every entity on its own: *)
(* when it returns for n entities, processed + failed = n, len(errors) =    *)
(* failed, and generate_candidate_embedding was called for every position   *)
(* 1..n in order, whatever failed before it.                                *)
C21_BulkEveryEntityCounted ==
    bulk_result # None
        => /\ bulk_result[1].processed + bulk_result[1].failed = Len(bulk_candidates)
           /\ Len(bulk_result[1].errors) = bulk_result[1].failed
           /\ bulk_attempted = [k \in 1..Len(bulk_candidates) |-> k]

\* a returned call in which the first entity failed and a later one was processed
C21_Witness ==
    /\ bulk_result # None
    /\ Len(bulk_candidates) = MaxBulk
    /\ bulk_result[1].failed >= 1
    /\ bulk_result[1].processed >= 1
    /\ "candidate_id" \notin DOMAIN bulk_candidates[1]
    /\ \E k \in DOMAIN candidate_embeddings : candidate_embeddings[k].candidate_id = 2

(* C22: every temporary file _ocr_with_paddle creates is removed on every   *)
(* exit path: once a call has returned or raised, the file it created no    *)
(* longer exists.                                                           *)
C22_TempFileRemovedOnExit ==
    \A k \in DOMAIN paddle_calls :
        (paddle_calls[k].pc \in {"returned", "raised"} /\ paddle_calls[k].temp_path # None)
            => paddle_calls[k].temp_path[1] \notin temp_files

SetOnFullCache ==
    /\ cache_call' # cache_call
    /\ cache_call'[1].op = "set"
    /\ Len(cache_entries) = cache_maxsize
    /\ cache_call'[1].key \notin CacheKeys(cache_entries)

(* C23: when the cache holds maxsize entries and set is called with a key   *)
(* it does not hold, exactly one entry is evicted, the least recently used  *)
(* one (insertion and a get hit are uses), and every other entry and the    *)
(* new entry are in the cache afterwards with their values.                 *)
C23_SetEvictsLeastRecentlyUsed ==
    [][SetOnFullCache
           => /\ cache_call'[1].evicted = <<use_order[1]>>
              /\ CacheKeys(cache_entries')
                     = (CacheKeys(cache_entries) \ {use_order[1]}) \cup {cache_call'[1].key}
              /\ \A n \in DOMAIN cache_entries :
                     cache_entries[n].key # use_order[1]
                         => \E m \in DOMAIN cache_entries' : cache_entries'[m] = cache_entries[n]
              /\ \E m \in DOMAIN cache_entries' :
                     cache_entries'[m] = [key |-> cache_call'[1].key,
                                          embedding |-> cache_call'[1].result[1]]]_vars

\* a set on a full cache evicted an entry inserted after one that stays,
\* because a get hit had made the older entry the more recently used
C23_Witness ==
    /\ cache_call # None
    /\ cache_call[1].op = "set"
    /\ cache_maxsize = MaxCacheSize
    /\ Len(cache_call[1].evicted) = 1
    /\ cache_hits >= 1
    /\ Len(cache_entries) = cache_maxsize
    /\ use_order[Len(use_order)] = cache_call[1].key
    /\ cache_call[1].evicted[1] = CacheKey("b", FALSE)
    /\ cache_entries[1].key = CacheKey("a", FALSE)

(* C24: calculate_score is total: for every criteria list and every         *)
(* candidate it returns a ScoringResult and raises nothing, also for an     *)
(* experience criterion whose criteria_value is no integer string and       *)
(* whose min_value is unset or 0.                                           *)
C24_CalculateScoreNeverRaises ==
    scoring_result # None => scoring_result[1].exception = ""

RECURSIVE Power(_, _)
Power(base, exponent) == IF exponent = 0 THEN 1 ELSE base * Power(base, exponent - 1)

(* C25: a function wrapped by async_retry(n, d, b, m), n >= 1, is invoked   *)
(* until its first success or its n-th failure with a listed exception: no  *)
(* invocation follows a success, the sleep after the k-th failure (k < n)   *)
(* is min(d * b^(k-1), m), no sleep follows the n-th failure and the last   *)
(* exception is raised after it.                                            *)
C25_RetryUntilSuccessOrNFailures ==
    /\ retry_run.invocations <= retry_params.max_attempts
    /\ \A k \in DOMAIN retry_run.sleeps :
           /\ k < retry_params.max_attempts
           /\ retry_run.sleeps[k]
                  = Min(retry_params.delay * Power(retry_params.backoff, k - 1),
                        retry_params.max_delay)
    /\ retry_run.pc = "loop" => Len(retry_run.sleeps) = retry_run.invocations
    /\ retry_run.pc = "returned" => Len(retry_run.sleeps) = retry_run.invocations - 1
    /\ (retry_run.pc = "raised" /\ retry_run.exception = "listed")
           => /\ retry_run.invocations = retry_params.max_attempts
              /\ Len(retry_run.sleeps) = retry_params.max_attempts - 1

StoredForJob(table, job_posting_id) ==
    {table[n] : n \in {m \in DOMAIN table : table[m].job_posting_id = job_posting_id}}

RequestedRows(request) == {RequestRow(request, n) : n \in DOMAIN request.criteria}

AllSetRequestsFinished ==
    /\ criteria_requests # <<>>
    /\ \A k \in DOMAIN criteria_requests : criteria_requests[k].pc = "done"

(* C26: once every replace_existing request for a job has finished, with    *)
(* or without success and however the requests interleaved, the criteria    *)
(* stored for the job are the complete set of one request or the set that   *)
(* was there before: never a mixture and never a partly written set.        *)
C26_CriteriaSetReplacedWhole ==
    AllSetRequestsFinished
        => \/ StoredForJob(scoring_criteria, 1) = StoredForJob(criteria_before, 1)
           \/ \E k \in DOMAIN criteria_requests :
                  StoredForJob(scoring_criteria, 1)
                      = RequestedRows(criteria_requests[k].request)

(* C27: whenever generate_candidate_embedding returns stored = true, a row  *)
(* for that candidate carrying the returned content_hash is in the store at *)
(* that moment; a failed store write is never reported as stored = true.    *)
C27_StoredMeansRowExists ==
    [][\A k \in DOMAIN calls' :
           (/\ calls'[k].pc = "returned"
            /\ k \in DOMAIN calls => calls[k].pc # "returned"
            /\ calls'[k].result[1].stored)
               => \E n \in DOMAIN candidate_embeddings' :
                      /\ candidate_embeddings'[n].candidate_id = calls'[k].request.candidate_id
                      /\ candidate_embeddings'[n].cv_text_hash = calls'[k].result[1].content_hash]_vars

\* the stored criteria of the job hold a required criterion the candidate
\* does not meet
MissesRequiredCriterion(candidate_id, job_posting_id) ==
    calculate_score(_get_candidate_data(candidate_id),
                    get_job_criteria(scoring_criteria, job_posting_id, FALSE)).disqualified

(* C28: a failed criteria query is never scored as a job without criteria:  *)
(* for a job whose stored criteria hold a required criterion the candidate  *)
(* does not meet, no answered MatchResult shows the candidate as not        *)
(* disqualified with criteria percentage 100.                               *)
C28_CriteriaFailureNotFullScore ==
    \A i \in DOMAIN response.matches :
        MissesRequiredCriterion(response.matches[i].candidate_id, response.job_posting_id)
            => ~(/\ ~response.matches[i].disqualified
                 /\ response.matches[i].criteria_max_score = 0
                 /\ response.matches[i].score_breakdown # None
                 /\ response.matches[i].score_breakdown[1].criteria_percentage = 10000)

\* the lines parse_work_history reads the jobTitle and the company of the job
\* anchored at ls[a] from, when they are not on the anchor line itself
HeaderLinesOf(ls, a) ==
    LET pre_date_text == Strip(StripTrailingDashes(Strip(BeforeFirstYear(ls[a]))))
        on_anchor_line == \/ Contains(ls[a], "|")
                          \/ (pre_date_text # "" /\ Lower(pre_date_text) \notin month_names)
    IN  IF on_anchor_line \/ a < 3 THEN {a - 1} \cap DOMAIN ls ELSE {a - 1, a - 2}

NextAnchorAfter(ls, n) ==
    {a \in DOMAIN ls : /\ a > n
                       /\ IsNextJob(ls[a])
                       /\ \A b \in (n + 1)..(a - 1) : ~IsNextJob(ls[b])}

(* C29: parse_work_history attributes no input line to two jobs: a line it  *)
(* appends to the responsibilities of a job is never one of the lines it    *)
(* then reads the jobTitle or company of the next job from.                 *)
C29_NoLineInTwoJobs ==
    [][(/\ parser_state = "CollectingResponsibilities"
        /\ Len(responsibilities') = Len(responsibilities) + 1)
           => \A a \in NextAnchorAfter(lines, line_j) : line_j \notin HeaderLinesOf(lines, a)]_vars

(* C30: every span (start, end) find_section_headers returns lies inside    *)
(* the text, 0 <= start <= end <= len(text), and the spans of different     *)
(* section names are pairwise disjoint, also when a header is the last      *)
(* line of a text without a trailing newline.                               *)
C30_SpansInsideTextAndDisjoint ==
    found_sections # None
        => /\ \A s \in found_sections[1] :
                  /\ 0 <= s.start
                  /\ s.start <= s.end
                  /\ s.end <= Len(JoinLines(header_lines))
           /\ \A s, t \in found_sections[1] :
                  s.name # t.name => (s.end <= t.start \/ t.end <= s.start)

====
